---------------------------- MODULE Spec2Model ----------------------------
(***************************************************************************)
(* PostHub backend (Express + Drizzle/PostgreSQL): the slug generator, the *)
(* route middleware and the post / comment / like / category / user        *)
(* controllers, as a state machine over the database tables.               *)
(*                                                                         *)
(* Strings that the code inspects character by character (titles, slugs)   *)
(* are sequences of one-character strings.  Rows are records; a table is a *)
(* function from its key space to a row or NoRow.  Every request handler   *)
(* is one action that also records the HTTP response in resp.  A handler   *)
(* whose read and write are separate awaited queries also exists in a      *)
(* split form (Begin / Commit) that parks the request in inflight between  *)
(* the two queries, so that other requests can interleave.                 *)
(***************************************************************************)
EXTENDS Integers, Sequences, FiniteSets, Bags, TLC

(***************************************************************************)
(* Bounds of the model                                                     *)
(***************************************************************************)
MaxTitleLen == 3
MaxPosts == 2
MaxComments == 1
MaxCategories == 1
MaxInflight == 2

(***************************************************************************)
(* Program constants                                                       *)
(***************************************************************************)
UuidLen == 36

VARIABLES
  users,        \* usersTable: id -> row
  userDetails,  \* userDetailsTable: userId -> row or NoRow
  posts,        \* postsTable: id -> row or NoRow
  comments,     \* commentsTable: id -> row or NoRow
  likes,        \* likesTable: bag of [userId, postId] rows
  categories,   \* categoriesTable: id -> row or NoRow
  nextPostId,   \* ids handed out so far (uuid / bigserial are never reused)
  nextCommentId,
  nextCategoryId,
  inflight,     \* requests suspended between their read and their write
  resp,         \* the response of the last request served
  slugCall      \* one call of generateSlug: its arguments and its result

db == <<users, userDetails, posts, comments, likes, categories,
        nextPostId, nextCommentId, nextCategoryId>>
vars == <<users, userDetails, posts, comments, likes, categories,
          nextPostId, nextCommentId, nextCategoryId, inflight, resp, slugCall>>

\* an absent row (findFirst gives undefined, req.user is null)
NoRow == [exists |-> FALSE]
Null == "null"
Undefined == "undefined"
Anonymous == "anonymous"

(***************************************************************************)
(* Characters                                                              *)
(***************************************************************************)
UpperChars == {"A", "B"}
LowerChars == {"a", "b"}
DigitChars == {"0", "1", "2", "3", "4", "5", "6", "7", "8", "9"}
SpaceChars == {" "}
\* \w of a JavaScript regular expression: [A-Za-z0-9_]
WordChars == UpperChars \cup LowerChars \cup DigitChars \cup {"_"}

toLowerCaseChar(c) ==
  CASE c = "A" -> "a"
    [] c = "B" -> "b"
    [] OTHER -> c

\* a toLowerCase that leaves the string as it is
toLowerCase_Identity(s) == s

toLowerCase(s) == [i \in 1..Len(s) |-> toLowerCaseChar(s[i])]

\* a replace that removes nothing
stripNonWord_KeepAll(s) == s

\* .replace(/[^\w\s-]/g, "")
stripNonWord(s) ==
  SelectSeq(s, LAMBDA c : c \in WordChars \cup SpaceChars \cup {"-"})

\* .replace(/\s+/g, "-"): every maximal run of whitespace becomes one hyphen
RECURSIVE spacesToHyphen(_)
spacesToHyphen(s) ==
  IF s = <<>> THEN <<>>
  ELSE IF Head(s) \in SpaceChars
       THEN IF Len(s) > 1 /\ s[2] \in SpaceChars
            THEN spacesToHyphen(Tail(s))
            ELSE <<"-">> \o spacesToHyphen(Tail(s))
       ELSE <<Head(s)>> \o spacesToHyphen(Tail(s))

\* .replace(/--/g, "-"): every pair of hyphens becomes one hyphen
RECURSIVE collapseHyphens_Pairs(_)
collapseHyphens_Pairs(s) ==
  IF s = <<>> THEN <<>>
  ELSE IF Head(s) = "-" /\ Len(s) > 1 /\ s[2] = "-"
       THEN <<"-">> \o collapseHyphens_Pairs(Tail(Tail(s)))
       ELSE <<Head(s)>> \o collapseHyphens_Pairs(Tail(s))

\* .replace(/-+/g, "-"): every maximal run of hyphens becomes one hyphen
RECURSIVE collapseHyphens(_)
collapseHyphens(s) ==
  IF s = <<>> THEN <<>>
  ELSE IF Head(s) = "-" /\ Len(s) > 1 /\ s[2] = "-"
       THEN collapseHyphens(Tail(s))
       ELSE <<Head(s)>> \o collapseHyphens(Tail(s))

\* String.prototype.trim(): drops leading and trailing whitespace only
RECURSIVE trimStart(_)
trimStart(s) ==
  IF s # <<>> /\ Head(s) \in SpaceChars THEN trimStart(Tail(s)) ELSE s

RECURSIVE trimEnd(_)
trimEnd(s) ==
  IF s # <<>> /\ s[Len(s)] \in SpaceChars
  THEN trimEnd(SubSeq(s, 1, Len(s) - 1))
  ELSE s

trim(s) == trimEnd(trimStart(s))

\* the base slug: lines 254-259 of generateSlug
baseSlug(title) ==
  trim(collapseHyphens(spacesToHyphen(stripNonWord(toLowerCase(title)))))

\* `${counter}`: the decimal digits of a positive integer
RECURSIVE numberToString(_)
numberToString(n) ==
  LET d == <<"0", "1", "2", "3", "4", "5", "6", "7", "8", "9">>[(n % 10) + 1]
  IN IF n < 10 THEN <<d>> ELSE numberToString(n \div 10) \o <<d>>

\* the while loop with ++counter in place of counter++
RECURSIVE slugLoop_PreIncrement(_, _, _, _)
slugLoop_PreIncrement(slug, uniqueSlug, counter, existingSlugs) ==
  IF uniqueSlug \in existingSlugs
  THEN slugLoop_PreIncrement(slug, slug \o <<"-">> \o numberToString(counter + 1),
                             counter + 1, existingSlugs)
  ELSE uniqueSlug

\* the while loop of generateSlug (lines 265-267)
RECURSIVE slugLoop(_, _, _, _)
slugLoop(slug, uniqueSlug, counter, existingSlugs) ==
  IF uniqueSlug \in existingSlugs
  THEN slugLoop(slug, slug \o <<"-">> \o numberToString(counter),
                counter + 1, existingSlugs)
  ELSE uniqueSlug

\* a generateSlug whose duplicate handling tries the suffix -1 once
generateSlug_SingleSuffix(title, existingSlugs) ==
  LET slug == baseSlug(title)
  IN IF slug \in existingSlugs THEN slug \o <<"-", "1">> ELSE slug

\* generateSlug(title, existingSlugs); existingSlugs.includes(x) reads the
\* array as the set of its elements
generateSlug(title, existingSlugs) ==
  LET slug == baseSlug(title)
  IN slugLoop(slug, slug, 1, existingSlugs)

(***************************************************************************)
(* The slug generator on its own: one call on arguments drawn from bounded *)
(* sets.                                                                   *)
(***************************************************************************)
TitleChars == {"A", "a", "1", " ", "-", "!", "_"}

RECURSIVE SeqsUpTo(_, _)
SeqsUpTo(S, n) ==
  IF n = 0 THEN {<<>>}
  ELSE LET shorter == SeqsUpTo(S, n - 1)
       IN shorter \cup {Append(s, c) : s \in {t \in shorter : Len(t) = n - 1}, c \in S}

Titles == SeqsUpTo(TitleChars, MaxTitleLen)

\* slugs a caller may already hold
SlugPool == {<<>>, <<"a">>, <<"a", "-", "1">>, <<"a", "-", "2">>, <<"-", "1">>}

NoSlugCall == [title |-> <<>>, existingSlugs |-> {}, result |-> <<>>, done |-> FALSE]

(***************************************************************************)
(* Tables                                                                  *)
(***************************************************************************)
UserIds == {"u1", "u2", "u3"}
PostIds == 1..MaxPosts
CommentIds == 1..MaxComments
CategoryIds == 1..MaxCategories
Roles == {"user", "admin"}

\* bcrypt.hash
bcryptHash(password) == <<"bcrypt", password>>

\* a compare that accepts every password
bcryptCompare_Always(password, hashed) == TRUE

\* bcrypt.compare
bcryptCompare(password, hashed) == hashed = bcryptHash(password)

passwordOf == [u \in UserIds |-> CASE u = "u1" -> "pw1" [] u = "u2" -> "pw2" [] OTHER -> "pw3"]
usernameOf == [u \in UserIds |-> CASE u = "u1" -> "root" [] u = "u2" -> "ann" [] OTHER -> "bob"]
emailOf == [u \in UserIds |-> CASE u = "u1" -> "root@x" [] u = "u2" -> "ann@x" [] OTHER -> "bob@x"]

\* the row the seed script inserts (role admin) and the rows signup inserts
\* (role user, status active)
InitialUsers ==
  [u \in UserIds |->
     [username |-> usernameOf[u],
      email |-> emailOf[u],
      hashedPassword |-> bcryptHash(passwordOf[u]),
      role |-> IF u = "u1" THEN "admin" ELSE "user",
      status |-> "active",
      deletedAt |-> Null]]

existingPostIds == {p \in PostIds : posts[p] # NoRow}
existingCommentIds == {c \in CommentIds : comments[c] # NoRow}
existingCategoryIds == {c \in CategoryIds : categories[c] # NoRow}

\* a user query without its status and deletedAt conditions
activeUserExists_AnyStatus(userId) == userId \in UserIds /\ users[userId] # NoRow

\* and(eq(usersTable.id, id), eq(usersTable.status, "active"), isNull(usersTable.deletedAt))
activeUserExists(userId) ==
  /\ userId \in UserIds
  /\ users[userId] # NoRow
  /\ users[userId].status = "active"
  /\ users[userId].deletedAt = Null

\* the joined author columns of a row: status active and deletedAt null
authorActive(row) ==
  users[row.userId].status = "active" /\ users[row.userId].deletedAt = Null

(***************************************************************************)
(* Middleware and auth helpers                                             *)
(***************************************************************************)
\* a lookup that leaves out the where clause and returns the first user row
getUserFromToken_FirstRow(caller) ==
  IF caller = Anonymous THEN NoRow
  ELSE [id |-> "u1", role |-> users["u1"].role, status |-> users["u1"].status]

\* AuthService.getUserFromToken: the row of the token's id, whatever its
\* status; no token (or no row) gives null.  Every user holds a token: signup
\* and login hand one out, and it stays valid for an hour
getUserFromToken(caller) ==
  IF caller = Anonymous \/ users[caller] = NoRow THEN NoRow
  ELSE [id |-> caller, role |-> users[caller].role, status |-> users[caller].status]

\* checkForAuthentication: req.user
checkForAuthentication(caller) == getUserFromToken(caller)

\* restrictTo(roles): the status it answers with, or 0 for next()
restrictTo(roles, reqUser) ==
  IF reqUser = NoRow THEN 401
  ELSE IF reqUser.role \notin roles THEN 403
  ELSE 0

\* a verifyAdmin that never throws
verifyAdmin_NoThrow(userId) == TRUE

\* verifyAdmin: TRUE when it returns true, FALSE when it throws
verifyAdmin(userId) ==
  /\ userId \in UserIds
  /\ users[userId] # NoRow
  /\ users[userId].role = "admin"
  /\ users[userId].status = "active"

\* a response: the handler, the token holder, the id the request names (0:
\* none), the HTTP status and the ids in the body's data
Response(op, caller, target, statusCode, data) ==
  [op |-> op, caller |-> caller, target |-> target,
   statusCode |-> statusCode, data |-> data]

NoResponse == Response("none", Anonymous, 0, 0, {})

\* the request was answered without touching the database
Reply(op, caller, target, statusCode) ==
  /\ resp' = Response(op, caller, target, statusCode, {})
  /\ UNCHANGED <<db, inflight, slugCall>>

(***************************************************************************)
(* postController                                                          *)
(*                                                                         *)
(* A post row keeps the columns the handlers decide on: userId, slug,      *)
(* isPublished, publishedAt, categoryId (0: null).  title, content and     *)
(* excerpt are stored and returned but never read back by a handler.       *)
(* Request bodies: isPublished is "true", "false" or "undefined";          *)
(* categoryId 0 and title <<>> stand for an absent field (both are falsy   *)
(* where the handlers test them).                                          *)
(***************************************************************************)
slugsOfPosts(ids) == {posts[p].slug : p \in ids}

\* a posts table without the unique index on slug
posts_slug_idx_Missing(slug, otherIds) == TRUE

\* uniqueIndex("posts_slug_idx"): the store accepts slug beside the other rows
posts_slug_idx(slug, otherIds) == slug \notin slugsOfPosts(otherIds)

\* categoryId references categoriesTable.id
posts_category_fk(categoryId) ==
  categoryId = 0 \/ (categoryId \in CategoryIds /\ categories[categoryId] # NoRow)

\* createPost up to the slug query: the status of an early return, 0 if none
createPostChecks(user, data) ==
  IF ~activeUserExists(user.id) THEN 403
  ELSE IF data.categoryId # 0 /\ categories[data.categoryId] = NoRow THEN 404
  ELSE 0

\* the values createPost inserts
createPostValues(user, data, slug) ==
  [userId |-> user.id,
   slug |-> slug,
   isPublished |-> IF data.isPublished = "undefined" THEN TRUE
                   ELSE data.isPublished = "true",
   categoryId |-> data.categoryId,
   publishedAt |-> IF data.isPublished = "true" THEN "ts" ELSE Null]

\* db.insert(postsTable).values(row): the store takes the row or throws
insertPostAccepted(row) ==
  /\ posts_slug_idx(row.slug, existingPostIds)
  /\ posts_category_fk(row.categoryId)

\* the insert of createPost and its response; a throw is not caught by the
\* controller and the route answers 500
createPostInsert(caller, row) ==
  /\ insertPostAccepted(row) => nextPostId <= MaxPosts
  /\ IF insertPostAccepted(row)
     THEN /\ posts' = [posts EXCEPT ![nextPostId] = row]
          /\ nextPostId' = nextPostId + 1
          /\ resp' = Response("createPost", caller, nextPostId, 201, {nextPostId})
     ELSE /\ resp' = Response("createPost", caller, 0, 500, {})
          /\ UNCHANGED <<posts, nextPostId>>
  /\ UNCHANGED <<users, userDetails, comments, likes, categories,
                 nextCommentId, nextCategoryId, slugCall>>

\* POST /api/posts served without interleaving
createPost(caller, data) ==
  LET reqUser == checkForAuthentication(caller)
      gate == restrictTo({"user", "admin"}, reqUser)
  IN IF gate # 0 THEN Reply("createPost", caller, 0, gate)
     ELSE IF createPostChecks(reqUser, data) # 0
          THEN Reply("createPost", caller, 0, createPostChecks(reqUser, data))
          ELSE /\ createPostInsert(caller,
                    createPostValues(reqUser, data,
                      generateSlug(data.title, slugsOfPosts(existingPostIds))))
               /\ UNCHANGED inflight

\* ids of the requests parked in inflight
freeRequestIds == (1..MaxInflight) \ {r.rid : r \in inflight}

\* POST /api/posts up to the slug query (lines 228-271); the insert follows
\* in createPostCommit
createPostBegin(caller, data) ==
  LET reqUser == checkForAuthentication(caller)
      gate == restrictTo({"user", "admin"}, reqUser)
  IN IF gate # 0 THEN Reply("createPost", caller, 0, gate)
     ELSE IF createPostChecks(reqUser, data) # 0
          THEN Reply("createPost", caller, 0, createPostChecks(reqUser, data))
          ELSE /\ freeRequestIds # {}
               /\ inflight' = inflight \cup
                    {[rid |-> CHOOSE r \in freeRequestIds :
                                \A q \in freeRequestIds : r <= q,
                      op |-> "createPost",
                      caller |-> caller,
                      postId |-> 0,
                      row |-> createPostValues(reqUser, data,
                                generateSlug(data.title, slugsOfPosts(existingPostIds)))]}
               /\ resp' = Response("await", caller, 0, 0, {})
               /\ UNCHANGED <<db, slugCall>>

\* the insert of a parked createPost (lines 273-285)
createPostCommit(req) ==
  /\ req \in inflight
  /\ req.op = "createPost"
  /\ createPostInsert(req.caller, req.row)
  /\ inflight' = inflight \ {req}

\* an ownership test that lets everybody through
notPostOwner_Never(post, userId) == FALSE

\* post.userId !== userId
notPostOwner(post, userId) == post.userId # userId

\* updatePost and deletePost up to the ownership test: the status of an
\* early return, 0 if none
postMutationChecks(postId, userId) ==
  IF posts[postId] = NoRow \/ ~authorActive(posts[postId]) THEN 403
  ELSE IF notPostOwner(posts[postId], userId) THEN 403
  ELSE 0

\* updateData of updatePost (lines 498-515).  slug is <<>> when the title is
\* absent and <<the new slug>> otherwise; publishedAt is "undefined" when
\* isPublished is absent
updatePostData(post, postId, updates) ==
  [slug |-> IF updates.title # <<>>
            THEN <<generateSlug(updates.title, slugsOfPosts(existingPostIds \ {postId}))>>
            ELSE <<>>,
   isPublished |-> updates.isPublished,
   publishedAt |-> IF updates.isPublished = "undefined" THEN "undefined"
                   ELSE IF updates.isPublished = "true"
                        THEN (IF post.publishedAt # Null THEN post.publishedAt ELSE "ts")
                        ELSE Null,
   categoryId |-> updates.categoryId]

\* .set(updateData) on a row: the columns updateData names are overwritten
setPostColumns(row, updateData) ==
  [row EXCEPT
     !.slug = IF updateData.slug # <<>> THEN updateData.slug[1] ELSE @,
     !.isPublished = IF updateData.isPublished = "undefined" THEN @
                     ELSE updateData.isPublished = "true",
     !.publishedAt = IF updateData.publishedAt = "undefined" THEN @
                     ELSE updateData.publishedAt,
     !.categoryId = IF updateData.categoryId = 0 THEN @ ELSE updateData.categoryId]

\* db.update(postsTable).set(updateData).where(id = postId) leaving row:
\* taken or thrown
updatePostAccepted(postId, row) ==
  /\ posts_slug_idx(row.slug, existingPostIds \ {postId})
  /\ posts_category_fk(row.categoryId)

\* the update of updatePost and its response; a throw is caught: 500.  A
\* post deleted in the meantime matches no row and the answer is still 200
updatePostWrite(caller, postId, updateData) ==
  /\ IF posts[postId] = NoRow
     THEN /\ resp' = Response("updatePost", caller, postId, 200, {})
          /\ UNCHANGED posts
     ELSE IF updatePostAccepted(postId, setPostColumns(posts[postId], updateData))
          THEN /\ posts' = [posts EXCEPT ![postId] = setPostColumns(@, updateData)]
               /\ resp' = Response("updatePost", caller, postId, 200, {postId})
          ELSE /\ resp' = Response("updatePost", caller, postId, 500, {})
               /\ UNCHANGED posts
  /\ UNCHANGED <<users, userDetails, comments, likes, categories,
                 nextPostId, nextCommentId, nextCategoryId, slugCall>>

\* PATCH /api/posts/:id served without interleaving
updatePost(caller, postId, updates) ==
  LET reqUser == checkForAuthentication(caller)
      gate == restrictTo({"user"}, reqUser)
  IN IF gate # 0 THEN Reply("updatePost", caller, postId, gate)
     ELSE IF postMutationChecks(postId, reqUser.id) # 0
          THEN Reply("updatePost", caller, postId, postMutationChecks(postId, reqUser.id))
          ELSE /\ updatePostWrite(caller, postId,
                                  updatePostData(posts[postId], postId, updates))
               /\ UNCHANGED inflight

\* PATCH /api/posts/:id up to the slug query (lines 469-515)
updatePostBegin(caller, postId, updates) ==
  LET reqUser == checkForAuthentication(caller)
      gate == restrictTo({"user"}, reqUser)
  IN IF gate # 0 THEN Reply("updatePost", caller, postId, gate)
     ELSE IF postMutationChecks(postId, reqUser.id) # 0
          THEN Reply("updatePost", caller, postId, postMutationChecks(postId, reqUser.id))
          ELSE /\ freeRequestIds # {}
               /\ inflight' = inflight \cup
                    {[rid |-> CHOOSE r \in freeRequestIds :
                                \A q \in freeRequestIds : r <= q,
                      op |-> "updatePost",
                      caller |-> caller,
                      postId |-> postId,
                      row |-> updatePostData(posts[postId], postId, updates)]}
               /\ resp' = Response("await", caller, postId, 0, {})
               /\ UNCHANGED <<db, slugCall>>

\* the update of a parked updatePost (lines 517-521)
updatePostCommit(req) ==
  /\ req \in inflight
  /\ req.op = "updatePost"
  /\ updatePostWrite(req.caller, req.postId, req.row)
  /\ inflight' = inflight \ {req}

\* DELETE /api/posts/:id; comments and likes of the post go with it
\* (onDelete: "cascade")
deletePost(caller, postId) ==
  LET reqUser == checkForAuthentication(caller)
      gate == restrictTo({"user"}, reqUser)
  IN IF gate # 0 THEN Reply("deletePost", caller, postId, gate)
     ELSE IF postMutationChecks(postId, reqUser.id) # 0
          THEN Reply("deletePost", caller, postId, postMutationChecks(postId, reqUser.id))
          ELSE /\ posts' = [posts EXCEPT ![postId] = NoRow]
               /\ comments' = [c \in CommentIds |->
                                 IF comments[c] # NoRow /\ comments[c].postId = postId
                                 THEN NoRow ELSE comments[c]]
               /\ likes' = [l \in {k \in DOMAIN likes : k.postId # postId} |-> likes[l]]
               /\ resp' = Response("deletePost", caller, postId, 200, {})
               /\ UNCHANGED <<users, userDetails, categories, nextPostId,
                              nextCommentId, nextCategoryId, inflight, slugCall>>

(***************************************************************************)
(* postController: reads                                                   *)
(***************************************************************************)
\* req.params.identifier: a post id (a uuid, 36 characters) or a slug
IdIdentifier(postId) == [kind |-> "id", id |-> postId, slug |-> <<>>]
SlugIdentifier(slug) == [kind |-> "slug", id |-> 0, slug |-> slug]

identifierLength(identifier) ==
  IF identifier.kind = "id" THEN UuidLen ELSE Len(identifier.slug)

HexChars == DigitChars \cup {"a", "b", "c", "d", "e", "f"}

\* text the store reads as a uuid: 8-4-4-4-12 hexadecimal digits
isUuidSyntax(s) ==
  /\ Len(s) = UuidLen
  /\ \A i \in 1..Len(s) :
       IF i \in {9, 14, 19, 24} THEN s[i] = "-" ELSE s[i] \in HexChars

\* the post the identifier names, whatever its visibility (0: none)
identifiedPost(identifier) ==
  IF identifier.kind = "id"
  THEN (IF identifier.id \in existingPostIds THEN identifier.id ELSE 0)
  ELSE IF \E p \in existingPostIds : posts[p].slug = identifier.slug
       THEN CHOOSE p \in existingPostIds : posts[p].slug = identifier.slug
       ELSE 0

\* the joined query of getPostByIdOrSlug (lines 378-406): "throws" when the
\* store rejects the comparison of the uuid column with text that is no uuid,
\* else the post id of result[0], 0 when there is no record
postQuery(identifier) ==
  LET isUuid == identifierLength(identifier) = UuidLen
      hits == {p \in existingPostIds :
                 /\ authorActive(posts[p])
                 /\ IF isUuid
                    THEN identifier.kind = "id" /\ p = identifier.id
                    ELSE identifier.kind = "slug" /\ posts[p].slug = identifier.slug}
  IN IF isUuid /\ identifier.kind = "slug" /\ ~isUuidSyntax(identifier.slug)
     THEN [throws |-> TRUE, post |-> 0]
     ELSE [throws |-> FALSE,
           post |-> IF hits = {} THEN 0 ELSE CHOOSE p \in hits : TRUE]

\* getPostByIdOrSlug(identifier, requestingUserId): the status.  verifyAdmin
\* throws for a requester who is no active admin, and the catch answers 500
getPostStatus(identifier, requestingUserId) ==
  LET q == postQuery(identifier)
  IN IF q.throws THEN 500
     ELSE IF q.post = 0 THEN 404
     ELSE LET post == posts[q.post]
              isOwner == requestingUserId = post.userId
          IN IF requestingUserId # Undefined /\ ~verifyAdmin(requestingUserId)
             THEN 500
             ELSE LET isAdminUser == IF requestingUserId # Undefined
                                     THEN verifyAdmin(requestingUserId)
                                     ELSE FALSE
                  IN IF ~post.isPublished /\ ~isOwner /\ ~isAdminUser
                     THEN 403
                     ELSE 200

\* GET /api/posts/:identifier; target is the post the identifier names
getPostByIdOrSlug(caller, identifier) ==
  LET reqUser == checkForAuthentication(caller)
      requestingUserId == IF reqUser = NoRow THEN Undefined ELSE reqUser.id
      status == getPostStatus(identifier, requestingUserId)
  IN /\ resp' = Response("getPostByIdOrSlug", caller, identifiedPost(identifier), status,
                         IF status = 200 THEN {postQuery(identifier).post} ELSE {})
     /\ UNCHANGED <<db, inflight, slugCall>>

\* the visibility conditions getPosts and getPostsByUser push (lines 313-327,
\* 623-637)
publishedFilter(post, options) ==
  IF options.publishedOnly
  THEN IF options.includeUnpublishedForOwner # Undefined
       THEN post.isPublished \/ post.userId = options.includeUnpublishedForOwner
       ELSE post.isPublished
  ELSE TRUE

\* getPosts(options): the post ids of the rows returned
getPostsRows(options) ==
  {p \in existingPostIds :
     /\ authorActive(posts[p])
     /\ options.userId # Undefined => posts[p].userId = options.userId
     /\ publishedFilter(posts[p], options)}

\* GET /api/posts: a public route; caller is the requester, whom the handler
\* never sees
getPosts(caller, options) ==
  /\ resp' = Response("getPosts", caller, 0, 200, getPostsRows(options))
  /\ UNCHANGED <<db, inflight, slugCall>>

\* getPostsByUser(options): the post ids of the rows returned
getPostsByUserRows(options) ==
  {p \in existingPostIds :
     /\ authorActive(posts[p])
     /\ IF options.userId # Undefined
        THEN posts[p].userId = options.userId
        ELSE users[posts[p].userId].username = options.username
     /\ publishedFilter(posts[p], options)}

\* GET /api/posts/user: a public route
getPostsByUser(caller, options) ==
  /\ resp' = IF options.userId = Undefined /\ options.username = Undefined
             THEN Response("getPostsByUser", caller, 0, 400, {})
             ELSE Response("getPostsByUser", caller, 0, 200, getPostsByUserRows(options))
  /\ UNCHANGED <<db, inflight, slugCall>>

(***************************************************************************)
(* commentController.  A comment row: userId, postId, content.             *)
(***************************************************************************)
\* the post query of addComment, likePost, getLikesByPostId: the post is
\* there, published, and its author is active and not soft-deleted
postAvailable(postId) ==
  /\ postId \in PostIds
  /\ posts[postId] # NoRow
  /\ posts[postId].isPublished
  /\ authorActive(posts[postId])

\* POST /api/comments
addComment(caller, postId, content) ==
  LET reqUser == checkForAuthentication(caller)
      gate == restrictTo({"user", "admin"}, reqUser)
  IN IF gate # 0 THEN Reply("addComment", caller, postId, gate)
     ELSE IF ~activeUserExists(reqUser.id) THEN Reply("addComment", caller, postId, 403)
     ELSE IF ~postAvailable(postId) THEN Reply("addComment", caller, postId, 404)
     ELSE /\ nextCommentId <= MaxComments
          /\ comments' = [comments EXCEPT ![nextCommentId] =
                            [userId |-> reqUser.id, postId |-> postId, content |-> content]]
          /\ nextCommentId' = nextCommentId + 1
          /\ resp' = Response("addComment", caller, postId, 201, {nextCommentId})
          /\ UNCHANGED <<users, userDetails, posts, likes, categories,
                         nextPostId, nextCategoryId, inflight, slugCall>>

\* comments.post_id references posts.id
comments_post_fk(row) == posts[row.postId] # NoRow

\* the insert of addComment and the answer: 201, or a throw when the store
\* refuses the row; the route passes it to next(error) and Express answers 500
insertComment(caller, row) ==
  /\ comments_post_fk(row) => nextCommentId <= MaxComments
  /\ IF comments_post_fk(row)
     THEN /\ comments' = [comments EXCEPT ![nextCommentId] = row]
          /\ nextCommentId' = nextCommentId + 1
          /\ resp' = Response("addComment", caller, row.postId, 201, {nextCommentId})
     ELSE /\ resp' = Response("addComment", caller, row.postId, 500, {})
          /\ UNCHANGED <<comments, nextCommentId>>
  /\ UNCHANGED <<users, userDetails, posts, likes, categories,
                 nextPostId, nextCategoryId, slugCall>>

\* POST /api/comments up to the post query (lines 9-49); the insert follows
\* in addCommentCommit
addCommentBegin(caller, postId, content) ==
  LET reqUser == checkForAuthentication(caller)
      gate == restrictTo({"user", "admin"}, reqUser)
  IN IF gate # 0 THEN Reply("addComment", caller, postId, gate)
     ELSE IF ~activeUserExists(reqUser.id) THEN Reply("addComment", caller, postId, 403)
     ELSE IF ~postAvailable(postId) THEN Reply("addComment", caller, postId, 404)
     ELSE /\ freeRequestIds # {}
          /\ inflight' = inflight \cup
               {[rid |-> CHOOSE r \in freeRequestIds : \A q \in freeRequestIds : r <= q,
                 op |-> "addComment",
                 caller |-> caller,
                 postId |-> postId,
                 row |-> [userId |-> reqUser.id, postId |-> postId, content |-> content]]}
          /\ resp' = Response("await", caller, postId, 0, {})
          /\ UNCHANGED <<db, slugCall>>

\* the insert of a parked addComment (lines 51-58)
addCommentCommit(req) ==
  /\ req \in inflight
  /\ req.op = "addComment"
  /\ insertComment(req.caller, req.row)
  /\ inflight' = inflight \ {req}

\* the post of a comment is not there, unpublished, or its author inactive
commentPostUnavailable(comment) ==
  \/ posts[comment.postId] = NoRow
  \/ ~posts[comment.postId].isPublished
  \/ ~authorActive(posts[comment.postId])

\* updateComment(commentId, userId, content, isAdmin): status and new table
updateCommentResult(commentId, userId, content, isAdmin) ==
  IF comments[commentId] = NoRow THEN [statusCode |-> 404, comments |-> comments]
  ELSE IF ~authorActive(comments[commentId])
       THEN [statusCode |-> 403, comments |-> comments]
  ELSE IF commentPostUnavailable(comments[commentId])
       THEN [statusCode |-> 403, comments |-> comments]
  ELSE IF ~isAdmin /\ comments[commentId].userId # userId
       THEN [statusCode |-> 401, comments |-> comments]
  ELSE [statusCode |-> 200,
        comments |-> [comments EXCEPT ![commentId].content = content]]

\* PATCH /api/comments/:commentId
updateComment(caller, commentId, content) ==
  LET reqUser == checkForAuthentication(caller)
      gate == restrictTo({"user", "admin"}, reqUser)
  IN IF gate # 0 THEN Reply("updateComment", caller, commentId, gate)
     ELSE LET r == updateCommentResult(commentId, reqUser.id, content,
                                       reqUser.role = "admin")
          IN /\ comments' = r.comments
             /\ resp' = Response("updateComment", caller, commentId, r.statusCode, {})
             /\ UNCHANGED <<users, userDetails, posts, likes, categories, nextPostId,
                            nextCommentId, nextCategoryId, inflight, slugCall>>

\* deleteComment(commentId, userId, isAdmin): status and new table
deleteCommentResult(commentId, userId, isAdmin) ==
  IF comments[commentId] = NoRow THEN [statusCode |-> 404, comments |-> comments]
  ELSE IF ~authorActive(comments[commentId])
       THEN [statusCode |-> 403, comments |-> comments]
  ELSE IF ~isAdmin /\ comments[commentId].userId # userId
       THEN [statusCode |-> 401, comments |-> comments]
  ELSE [statusCode |-> 200, comments |-> [comments EXCEPT ![commentId] = NoRow]]

\* DELETE /api/comments/:commentId
deleteComment(caller, commentId) ==
  LET reqUser == checkForAuthentication(caller)
      gate == restrictTo({"user", "admin"}, reqUser)
  IN IF gate # 0 THEN Reply("deleteComment", caller, commentId, gate)
     ELSE LET r == deleteCommentResult(commentId, reqUser.id, reqUser.role = "admin")
          IN /\ comments' = r.comments
             /\ resp' = Response("deleteComment", caller, commentId, r.statusCode, {})
             /\ UNCHANGED <<users, userDetails, posts, likes, categories, nextPostId,
                            nextCommentId, nextCategoryId, inflight, slugCall>>

\* GET /api/comments/post/:postId: 404 unless the post is available, else the
\* comments of the post whose own author is active
getCommentsByPostId(caller, postId) ==
  /\ resp' = IF ~postAvailable(postId)
             THEN Response("getCommentsByPostId", caller, postId, 404, {})
             ELSE Response("getCommentsByPostId", caller, postId, 200,
                           {c \in existingCommentIds :
                              comments[c].postId = postId /\ authorActive(comments[c])})
  /\ UNCHANGED <<db, inflight, slugCall>>

(***************************************************************************)
(* likeController.  A like row: userId, postId (the primary key).          *)
(***************************************************************************)
\* primaryKey({ columns: [table.userId, table.postId] }): the store accepts
\* the row when no row with this key is there
likes_pk_Missing(row) == TRUE

likes_pk(row) == ~BagIn(row, likes)

\* a likes table without its reference to posts
likes_post_fk_Missing(row) == TRUE

\* likes.post_id references posts.id
likes_post_fk(row) == posts[row.postId] # NoRow

\* the existingLike query of likePost
existingLike(userId, postId) == BagIn([userId |-> userId, postId |-> postId], likes)

\* the insert of likePost and the answer: 200, or, when the store refuses
\* the row, the error goes to next(error) and Express answers 500
insertLike(caller, row) ==
  /\ IF likes_pk(row) /\ likes_post_fk(row)
     THEN /\ likes' = likes (+) SetToBag({row})
          /\ resp' = Response("likePost", caller, row.postId, 200, {})
     ELSE /\ resp' = Response("likePost", caller, row.postId, 500, {})
          /\ UNCHANGED likes
  /\ UNCHANGED <<users, userDetails, posts, comments, categories, nextPostId,
                 nextCommentId, nextCategoryId, slugCall>>

\* POST /api/likes served without interleaving
likePost(caller, postId) ==
  LET reqUser == checkForAuthentication(caller)
      gate == restrictTo({"user", "admin"}, reqUser)
  IN IF gate # 0 THEN Reply("likePost", caller, postId, gate)
     ELSE IF ~activeUserExists(reqUser.id) THEN Reply("likePost", caller, postId, 403)
     ELSE IF ~postAvailable(postId) THEN Reply("likePost", caller, postId, 404)
     ELSE IF existingLike(reqUser.id, postId)
          THEN Reply("likePost", caller, postId, 400)
     ELSE /\ insertLike(caller, [userId |-> reqUser.id, postId |-> postId])
          /\ UNCHANGED inflight

\* POST /api/likes up to the existingLike query (lines 19-70); the insert
\* follows in likePostCommit
likePostBegin(caller, postId) ==
  LET reqUser == checkForAuthentication(caller)
      gate == restrictTo({"user", "admin"}, reqUser)
  IN IF gate # 0 THEN Reply("likePost", caller, postId, gate)
     ELSE IF ~activeUserExists(reqUser.id) THEN Reply("likePost", caller, postId, 403)
     ELSE IF ~postAvailable(postId) THEN Reply("likePost", caller, postId, 404)
     ELSE IF existingLike(reqUser.id, postId)
          THEN Reply("likePost", caller, postId, 400)
     ELSE /\ freeRequestIds # {}
          /\ inflight' = inflight \cup
               {[rid |-> CHOOSE r \in freeRequestIds : \A q \in freeRequestIds : r <= q,
                 op |-> "likePost",
                 caller |-> caller,
                 postId |-> postId,
                 row |-> [userId |-> reqUser.id, postId |-> postId]]}
          /\ resp' = Response("await", caller, postId, 0, {})
          /\ UNCHANGED <<db, slugCall>>

\* the insert of a parked likePost (lines 72-75)
likePostCommit(req) ==
  /\ req \in inflight
  /\ req.op = "likePost"
  /\ insertLike(req.caller, req.row)
  /\ inflight' = inflight \ {req}

\* DELETE /api/likes
unlikePost(caller, postId) ==
  LET reqUser == checkForAuthentication(caller)
      gate == restrictTo({"user", "admin"}, reqUser)
  IN IF gate # 0 THEN Reply("unlikePost", caller, postId, gate)
     ELSE IF ~activeUserExists(reqUser.id) THEN Reply("unlikePost", caller, postId, 403)
     ELSE /\ likes' = [l \in DOMAIN likes \ {[userId |-> reqUser.id, postId |-> postId]}
                         |-> likes[l]]
          /\ resp' = Response("unlikePost", caller, postId, 200, {})
          /\ UNCHANGED <<users, userDetails, posts, comments, categories, nextPostId,
                         nextCommentId, nextCategoryId, inflight, slugCall>>

\* GET /api/likes/post/:postId: the user ids of the likes whose user is active
getLikesByPostId(caller, postId) ==
  /\ resp' = IF ~postAvailable(postId)
             THEN Response("getLikesByPostId", caller, postId, 404, {})
             ELSE Response("getLikesByPostId", caller, postId, 200,
                           {l.userId : l \in {k \in DOMAIN likes :
                              k.postId = postId /\ authorActive(k)}})
  /\ UNCHANGED <<db, inflight, slugCall>>

\* the post query of getLikeCount and the test that follows it: the post is
\* there and published (the author columns are fetched and not tested)
likeCountPostExists(postId) ==
  /\ postId \in PostIds
  /\ posts[postId] # NoRow
  /\ posts[postId].isPublished

\* GET /api/likes/count/:postId: data is {count}
getLikeCount(caller, postId) ==
  /\ resp' = IF ~likeCountPostExists(postId)
             THEN Response("getLikeCount", caller, postId, 404, {})
             ELSE Response("getLikeCount", caller, postId, 200,
                           {BagCardinality([l \in {k \in DOMAIN likes : k.postId = postId}
                                              |-> likes[l]])})
  /\ UNCHANGED <<db, inflight, slugCall>>

(***************************************************************************)
(* categoryController.  A category row: name, slug, description.  Any      *)
(* throw inside a handler (verifyAdmin, a constraint of the store) is      *)
(* caught and answered 403.                                                *)
(***************************************************************************)
slugsOfCategories(ids) == {categories[c].slug : c \in ids}

\* uniqueIndex("category_name_idx") and uniqueIndex("category_slug_idx")
categoryRowAccepted(row, otherIds) ==
  /\ \A c \in otherIds : categories[c].name # row.name
  /\ row.slug \notin slugsOfCategories(otherIds)

\* createCategory(adminId, name, description): status and new table
createCategoryResult(adminId, name, description) ==
  LET row == [name |-> name,
              slug |-> generateSlug(name, slugsOfCategories(existingCategoryIds)),
              description |-> description]
  IN IF ~verifyAdmin(adminId) THEN [statusCode |-> 403, categories |-> categories]
     ELSE IF ~categoryRowAccepted(row, existingCategoryIds)
          THEN [statusCode |-> 403, categories |-> categories]
     ELSE [statusCode |-> 201,
           categories |-> [c \in CategoryIds |->
                             IF c = nextCategoryId THEN row ELSE categories[c]]]

\* POST /api/categories
createCategory(caller, name, description) ==
  LET reqUser == checkForAuthentication(caller)
      gate == restrictTo({"admin"}, reqUser)
  IN IF gate # 0 THEN Reply("createCategory", caller, 0, gate)
     ELSE LET r == createCategoryResult(reqUser.id, name, description)
          IN /\ r.statusCode = 201 => nextCategoryId <= MaxCategories
             /\ categories' = r.categories
             /\ nextCategoryId' = IF r.statusCode = 201 THEN nextCategoryId + 1
                                  ELSE nextCategoryId
             /\ resp' = Response("createCategory", caller,
                                 IF r.statusCode = 201 THEN nextCategoryId ELSE 0,
                                 r.statusCode, {})
             /\ UNCHANGED <<users, userDetails, posts, comments, likes, nextPostId,
                            nextCommentId, inflight, slugCall>>

\* updateCategory(adminId, categoryId, updates): status and new table.
\* updates.name <<>> and updates.description "undefined" are absent fields;
\* with both absent .set() has no values and throws
updateCategoryResult(adminId, categoryId, updates) ==
  LET current == categories[categoryId]
      others == IF current = NoRow THEN existingCategoryIds
                ELSE {c \in existingCategoryIds : categories[c].slug # current.slug}
      row == [current EXCEPT
                !.name = IF updates.name # <<>> THEN updates.name ELSE @,
                !.slug = IF updates.name # <<>>
                         THEN generateSlug(updates.name, slugsOfCategories(others))
                         ELSE @,
                !.description = IF updates.description # Undefined
                                THEN updates.description ELSE @]
  IN IF ~verifyAdmin(adminId) THEN [statusCode |-> 403, categories |-> categories]
     ELSE IF updates.name = <<>> /\ updates.description = Undefined
          THEN [statusCode |-> 403, categories |-> categories]
     ELSE IF current = NoRow THEN [statusCode |-> 200, categories |-> categories]
     ELSE IF ~categoryRowAccepted(row, existingCategoryIds \ {categoryId})
          THEN [statusCode |-> 403, categories |-> categories]
     ELSE [statusCode |-> 200, categories |-> [categories EXCEPT ![categoryId] = row]]

\* PATCH /api/categories/:id
updateCategory(caller, categoryId, updates) ==
  LET reqUser == checkForAuthentication(caller)
      gate == restrictTo({"admin"}, reqUser)
  IN IF gate # 0 THEN Reply("updateCategory", caller, categoryId, gate)
     ELSE LET r == updateCategoryResult(reqUser.id, categoryId, updates)
          IN /\ categories' = r.categories
             /\ resp' = Response("updateCategory", caller, categoryId, r.statusCode, {})
             /\ UNCHANGED <<users, userDetails, posts, comments, likes, nextPostId,
                            nextCommentId, nextCategoryId, inflight, slugCall>>

\* safeDeleteCategory(adminId, categoryId): status and new table
safeDeleteCategoryResult(adminId, categoryId) ==
  IF ~verifyAdmin(adminId) THEN [statusCode |-> 403, categories |-> categories]
  ELSE IF categories[categoryId] = NoRow
       THEN [statusCode |-> 404, categories |-> categories]
  ELSE IF \E p \in existingPostIds : posts[p].categoryId = categoryId
       THEN [statusCode |-> 400, categories |-> categories]
  ELSE [statusCode |-> 200, categories |-> [categories EXCEPT ![categoryId] = NoRow]]

\* DELETE /api/categories/:id
safeDeleteCategory(caller, categoryId) ==
  LET reqUser == checkForAuthentication(caller)
      gate == restrictTo({"admin"}, reqUser)
  IN IF gate # 0 THEN Reply("safeDeleteCategory", caller, categoryId, gate)
     ELSE LET r == safeDeleteCategoryResult(reqUser.id, categoryId)
          IN /\ categories' = r.categories
             /\ resp' = Response("safeDeleteCategory", caller, categoryId, r.statusCode, {})
             /\ UNCHANGED <<users, userDetails, posts, comments, likes, nextPostId,
                            nextCommentId, nextCategoryId, inflight, slugCall>>

(***************************************************************************)
(* AuthService and userController.  In a request body "" is an absent      *)
(* field.                                                                  *)
(***************************************************************************)
\* AuthService.login(identifier, password) on the table `table`: TRUE when
\* it returns a token, FALSE when it returns null
login(table, identifier, password) ==
  \E u \in UserIds :
    /\ table[u] # NoRow
    /\ table[u].email = identifier \/ table[u].username = identifier
    /\ table[u].status # "deleted"
    /\ bcryptCompare(password, table[u].hashedPassword)

\* a users table without its unique indexes
userRowAccepted_Missing(row, userId) == TRUE

\* uniqueIndex("username_idx") and uniqueIndex("email_idx")
userRowAccepted(row, userId) ==
  \A u \in UserIds \ {userId} :
    users[u] # NoRow => users[u].username # row.username /\ users[u].email # row.email

\* the row updateUser writes: updateData applied (lines 431-465)
updateUserValues(user, body) ==
  [user EXCEPT
     !.email = IF body.email # "" THEN body.email ELSE @,
     !.username = IF body.username # "" THEN body.username ELSE @,
     !.hashedPassword = IF body.newPassword # "" THEN bcryptHash(body.newPassword)
                        ELSE @]

\* updateUser from the password test on: status and new users table
updateUserResult(userId, body) ==
  LET user == users[userId]
      sensitive == body.email # "" \/ body.username # "" \/ body.newPassword # ""
      row == updateUserValues(user, body)
      requiresTokenRefresh ==
        \/ body.email # "" /\ body.email # user.email
        \/ body.username # "" /\ body.username # user.username
        \/ body.newPassword # ""
      updated == [users EXCEPT ![userId] = row]
  IN IF user = NoRow THEN [statusCode |-> 404, users |-> users]
     ELSE IF sensitive /\ body.currentPassword = ""
          THEN [statusCode |-> 400, users |-> users]
     ELSE IF sensitive /\ ~bcryptCompare(body.currentPassword, user.hashedPassword)
          THEN [statusCode |-> 401, users |-> users]
     ELSE IF body.email # "" /\ body.email # user.email
             /\ \E u \in UserIds : users[u] # NoRow /\ users[u].email = body.email
          THEN [statusCode |-> 409, users |-> users]
     ELSE IF body.username # "" /\ body.username # user.username
             /\ \E u \in UserIds : users[u] # NoRow /\ users[u].username = body.username
          THEN [statusCode |-> 409, users |-> users]
     ELSE IF ~userRowAccepted(row, userId)
          THEN [statusCode |-> 500, users |-> users]
     ELSE IF requiresTokenRefresh
             /\ ~login(updated, row.email,
                       IF body.newPassword # "" THEN body.newPassword
                       ELSE body.currentPassword)
          THEN [statusCode |-> 500, users |-> updated]
     ELSE [statusCode |-> 200, users |-> updated]

\* PATCH /api/users/me
updateUser(caller, body) ==
  LET reqUser == checkForAuthentication(caller)
  IN IF reqUser = NoRow THEN Reply("updateUser", caller, 0, 401)
     ELSE LET r == updateUserResult(reqUser.id, body)
          IN /\ users' = r.users
             /\ resp' = Response("updateUser", caller, 0, r.statusCode, {})
             /\ UNCHANGED <<userDetails, posts, comments, likes, categories, nextPostId,
                            nextCommentId, nextCategoryId, inflight, slugCall>>

\* updateUser up to the username query: the status of an early return, 0 if
\* none (lines 386-453)
updateUserChecks(userId, body) ==
  LET user == users[userId]
      sensitive == body.email # "" \/ body.username # "" \/ body.newPassword # ""
  IN IF user = NoRow THEN 404
     ELSE IF sensitive /\ body.currentPassword = "" THEN 400
     ELSE IF sensitive /\ ~bcryptCompare(body.currentPassword, user.hashedPassword)
          THEN 401
     ELSE IF body.email # "" /\ body.email # user.email
             /\ \E u \in UserIds : users[u] # NoRow /\ users[u].email = body.email
          THEN 409
     ELSE IF body.username # "" /\ body.username # user.username
             /\ \E u \in UserIds : users[u] # NoRow /\ users[u].username = body.username
          THEN 409
     ELSE 0

\* updateData and what the token refresh needs, as computed from the row read
\* at the start of the request ("" and <<>> are columns not set)
updateUserData(user, body) ==
  [email |-> IF body.email # "" /\ body.email # user.email THEN body.email ELSE "",
   username |-> IF body.username # "" /\ body.username # user.username
                THEN body.username ELSE "",
   hashedPassword |-> IF body.newPassword # "" THEN bcryptHash(body.newPassword)
                      ELSE <<>>,
   identifier |-> IF body.email # "" /\ body.email # user.email THEN body.email
                  ELSE user.email,
   passwordForAuth |-> IF body.newPassword # "" THEN body.newPassword
                       ELSE body.currentPassword]

\* .set(updateData) on the row as it is when the update runs
setUserColumns(row, updateData) ==
  [row EXCEPT
     !.email = IF updateData.email # "" THEN updateData.email ELSE @,
     !.username = IF updateData.username # "" THEN updateData.username ELSE @,
     !.hashedPassword = IF updateData.hashedPassword # <<>>
                        THEN updateData.hashedPassword ELSE @]

\* PATCH /api/users/me up to the update (lines 379-465)
updateUserBegin(caller, body) ==
  LET reqUser == checkForAuthentication(caller)
  IN IF reqUser = NoRow THEN Reply("updateUser", caller, 0, 401)
     ELSE IF updateUserChecks(reqUser.id, body) # 0
          THEN Reply("updateUser", caller, 0, updateUserChecks(reqUser.id, body))
     ELSE /\ freeRequestIds # {}
          /\ inflight' = inflight \cup
               {[rid |-> CHOOSE r \in freeRequestIds : \A q \in freeRequestIds : r <= q,
                 op |-> "updateUser",
                 caller |-> caller,
                 postId |-> 0,
                 row |-> updateUserData(users[reqUser.id], body)]}
          /\ resp' = Response("await", caller, 0, 0, {})
          /\ UNCHANGED <<db, slugCall>>

\* the update of a parked updateUser and the token refresh (lines 467-519);
\* a row the store refuses throws into the catch: 500
updateUserCommit(req) ==
  LET row == setUserColumns(users[req.caller], req.row)
      updated == [users EXCEPT ![req.caller] = row]
      requiresTokenRefresh ==
        req.row.email # "" \/ req.row.username # "" \/ req.row.hashedPassword # <<>>
  IN /\ req \in inflight
     /\ req.op = "updateUser"
     /\ IF ~userRowAccepted(row, req.caller)
        THEN /\ resp' = Response("updateUser", req.caller, 0, 500, {})
             /\ UNCHANGED users
        ELSE /\ users' = updated
             /\ resp' = Response("updateUser", req.caller, 0,
                                 IF requiresTokenRefresh
                                    /\ ~login(updated, req.row.identifier,
                                              req.row.passwordForAuth)
                                 THEN 500 ELSE 200, {})
     /\ inflight' = inflight \ {req}
     /\ UNCHANGED <<userDetails, posts, comments, likes, categories, nextPostId,
                    nextCommentId, nextCategoryId, slugCall>>

\* the id of a row about to be inserted, before the store assigns one
NewUserId == "new"

\* ids the store has not handed out yet (gen_random_uuid)
freeUserIds == {u \in UserIds : users[u] = NoRow}

\* signup up to the existingUser query: the status of an early return, 0 if
\* none
signupChecks(body) ==
  IF body.username = "" \/ body.email = "" \/ body.password = "" THEN 400
  ELSE IF \E u \in UserIds :
            /\ users[u] # NoRow
            /\ users[u].email = body.email \/ users[u].username = body.username
       THEN 409
  ELSE 0

\* a signup that takes the role from nowhere and inserts an admin
signupValues_Admin(body) ==
  [username |-> body.username,
   email |-> body.email,
   hashedPassword |-> bcryptHash(body.password),
   role |-> "admin",
   status |-> "active",
   deletedAt |-> Null]

\* the row signup inserts
signupValues(body) ==
  [username |-> body.username,
   email |-> body.email,
   hashedPassword |-> bcryptHash(body.password),
   role |-> "user",
   status |-> "active",
   deletedAt |-> Null]

\* the insert of signup and the answer: 201, or 500 from the catch when the
\* store refuses the row
signupInsert(row) ==
  /\ userRowAccepted(row, NewUserId) => freeUserIds # {}
  /\ IF userRowAccepted(row, NewUserId)
     THEN /\ users' = [users EXCEPT ![CHOOSE u \in freeUserIds : TRUE] = row]
          /\ resp' = Response("signup", Anonymous, 0, 201, {})
     ELSE /\ resp' = Response("signup", Anonymous, 0, 500, {})
          /\ UNCHANGED users
  /\ UNCHANGED <<userDetails, posts, comments, likes, categories, nextPostId,
                 nextCommentId, nextCategoryId, slugCall>>

\* POST /api/auth/signup served without interleaving
signup(body) ==
  IF signupChecks(body) # 0 THEN Reply("signup", Anonymous, 0, signupChecks(body))
  ELSE /\ signupInsert(signupValues(body))
       /\ UNCHANGED inflight

\* POST /api/auth/signup up to the existingUser query (lines 11-33)
signupBegin(body) ==
  IF signupChecks(body) # 0 THEN Reply("signup", Anonymous, 0, signupChecks(body))
  ELSE /\ freeRequestIds # {}
       /\ inflight' = inflight \cup
            {[rid |-> CHOOSE r \in freeRequestIds : \A q \in freeRequestIds : r <= q,
              op |-> "signup",
              caller |-> Anonymous,
              postId |-> 0,
              row |-> signupValues(body)]}
       /\ resp' = Response("await", Anonymous, 0, 0, {})
       /\ UNCHANGED <<db, slugCall>>

\* the insert of a parked signup (lines 35-45)
signupCommit(req) ==
  /\ req \in inflight
  /\ req.op = "signup"
  /\ signupInsert(req.row)
  /\ inflight' = inflight \ {req}

\* PATCH /api/users/me/details: the details row is updated or inserted
updateDetails(caller, bio) ==
  LET reqUser == checkForAuthentication(caller)
  IN IF reqUser = NoRow THEN Reply("updateDetails", caller, 0, 401)
     ELSE /\ userDetails' = [userDetails EXCEPT ![reqUser.id] = [bio |-> bio]]
          /\ resp' = Response("updateDetails", caller, 0, 200, {})
          /\ UNCHANGED <<users, posts, comments, likes, categories, nextPostId,
                         nextCommentId, nextCategoryId, inflight, slugCall>>

\* DELETE /api/users/me: the soft delete
deleteAccount(caller, password) ==
  LET reqUser == checkForAuthentication(caller)
  IN IF reqUser = NoRow THEN Reply("deleteAccount", caller, 0, 401)
     ELSE IF password = "" THEN Reply("deleteAccount", caller, 0, 400)
     ELSE IF ~bcryptCompare(password, users[reqUser.id].hashedPassword)
          THEN Reply("deleteAccount", caller, 0, 401)
     ELSE /\ users' = [users EXCEPT ![reqUser.id].status = "deleted",
                                    ![reqUser.id].deletedAt = "ts"]
          /\ resp' = Response("deleteAccount", caller, 0, 200, {})
          /\ UNCHANGED <<userDetails, posts, comments, likes, categories, nextPostId,
                         nextCommentId, nextCategoryId, inflight, slugCall>>

\* POST /api/auth/login: 400 without identifier or password, 401 when
\* AuthService.login gives no token, else 200; nothing is written
authLogin(body) ==
  /\ resp' = IF body.identifier = "" \/ body.password = ""
             THEN Response("login", Anonymous, 0, 400, {})
             ELSE IF ~login(users, body.identifier, body.password)
                  THEN Response("login", Anonymous, 0, 401, {})
             ELSE Response("login", Anonymous, 0, 200, {})
  /\ UNCHANGED <<db, inflight, slugCall>>

\* GET /api/users/me: the row of req.user.id with its details, whatever its
\* status or deletedAt (only hashedPassword and deletedAt are dropped from the
\* body); data holds the id of the user whose record is returned
getProfile(caller) ==
  LET reqUser == checkForAuthentication(caller)
  IN /\ resp' = IF reqUser = NoRow THEN Response("getProfile", caller, 0, 401, {})
                ELSE IF users[reqUser.id] = NoRow
                     THEN Response("getProfile", caller, 0, 404, {})
                ELSE Response("getProfile", caller, 0, 200, {reqUser.id})
     /\ UNCHANGED <<db, inflight, slugCall>>

\* GET /api/auth/me: res.json({ user: req.user }); null for no token
authMe(caller) ==
  LET reqUser == checkForAuthentication(caller)
  IN /\ resp' = Response("authMe", caller, 0, 200,
                         IF reqUser = NoRow THEN {} ELSE {reqUser.id})
     /\ UNCHANGED <<db, inflight, slugCall>>

\* the account_status column set to "suspended" in the store (no route of the
\* API writes this value)
suspendUser(userId) ==
  /\ users[userId] # NoRow
  /\ users[userId].status = "active"
  /\ users' = [users EXCEPT ![userId].status = "suspended"]
  /\ resp' = Response("suspendUser", Anonymous, 0, 0, {})
  /\ UNCHANGED <<userDetails, posts, comments, likes, categories, nextPostId,
                 nextCommentId, nextCategoryId, inflight, slugCall>>

(***************************************************************************)
(* Initial state: the seeded admin and the signed-up users, empty tables   *)
(***************************************************************************)
InitDb ==
  /\ users = InitialUsers
  /\ userDetails = [u \in UserIds |-> NoRow]
  /\ posts = [p \in PostIds |-> NoRow]
  /\ comments = [c \in CommentIds |-> NoRow]
  /\ likes = EmptyBag
  /\ categories = [c \in CategoryIds |-> NoRow]
  /\ nextPostId = 1
  /\ nextCommentId = 1
  /\ nextCategoryId = 1
  /\ inflight = {}
  /\ resp = NoResponse

Init ==
  /\ InitDb
  /\ slugCall = NoSlugCall

SlugInit ==
  /\ InitDb
  /\ slugCall \in [title : Titles, existingSlugs : SUBSET SlugPool,
                   result : {<<>>}, done : {FALSE}]

\* one call generateSlug(title, existingSlugs)
GenerateSlugCall ==
  /\ ~slugCall.done
  /\ slugCall' = [slugCall EXCEPT
                    !.result = generateSlug(slugCall.title, slugCall.existingSlugs),
                    !.done = TRUE]
  /\ UNCHANGED <<db, inflight, resp>>

SlugNext == GenerateSlugCall

SlugSpec == SlugInit /\ [][SlugNext]_vars

(***************************************************************************)
(* C1: for every title and every finite list of existing slugs, the slug   *)
(* generateSlug returns is not one of the existing slugs.                  *)
(***************************************************************************)
C1_SlugNotInExisting ==
  slugCall.done => slugCall.result \notin slugCall.existingSlugs

\* a call whose base slug and whose first suffixed candidate were both taken
C1_Witness ==
  /\ slugCall.done
  /\ baseSlug(slugCall.title) \in slugCall.existingSlugs
  /\ (baseSlug(slugCall.title) \o <<"-", "1">>) \in slugCall.existingSlugs
  /\ slugCall.result = baseSlug(slugCall.title) \o <<"-", "2">>

(***************************************************************************)
(* C14: generateSlug returns the base slug when it is not in the existing  *)
(* set; otherwise it returns base-k for the smallest positive integer k    *)
(* such that base-k is not in the existing set.                            *)
(***************************************************************************)
C14_SmallestFreeSuffix ==
  slugCall.done =>
    LET base == baseSlug(slugCall.title)
        S == slugCall.existingSlugs
        suffixed(k) == base \o <<"-">> \o numberToString(k)
    IN IF base \notin S THEN slugCall.result = base
       ELSE \E k \in 1..(Cardinality(S) + 1) :
              /\ slugCall.result = suffixed(k)
              /\ suffixed(k) \notin S
              /\ \A j \in 1..(k - 1) : suffixed(j) \in S

\* the base slug is taken and so is base-2, but base-1 is free: the call
\* returns base-1
C14_Witness ==
  /\ slugCall.done
  /\ slugCall.title = <<"A", "!">>
  /\ slugCall.existingSlugs = {<<"a">>, <<"a", "-", "2">>}
  /\ slugCall.result = <<"a", "-", "1">>

(***************************************************************************)
(* C15: generateSlug trims, so that leading and trailing whitespace of the *)
(* title contributes nothing to the slug: with no existing slugs, the slug *)
(* of a title is the slug of the title without its leading and trailing    *)
(* whitespace ('  Multiple   Spaces--here  ' gives 'multiple-spaces-here').*)
(***************************************************************************)
C15_OuterWhitespaceIgnored ==
  (slugCall.done /\ slugCall.existingSlugs = {})
  => slugCall.result = generateSlug(trim(slugCall.title), {})

(***************************************************************************)
(* C16: every character of the slug generateSlug returns is a lowercase    *)
(* letter, a digit, an underscore or a hyphen.                             *)
(***************************************************************************)
C16_SlugAlphabet ==
  slugCall.done =>
    \A i \in 1..Len(slugCall.result) :
      slugCall.result[i] \in LowerChars \cup DigitChars \cup {"_", "-"}

\* a title of an uppercase letter, a space and punctuation was turned into
\* a slug
C16_Witness ==
  /\ slugCall.done
  /\ slugCall.title = <<"A", " ", "!">>
  /\ slugCall.existingSlugs = {}
  /\ slugCall.result = <<"a", "-">>

(***************************************************************************)
(* ReSlugSpec: generateSlug with no existing slugs, called on a title and  *)
(* then called again on what it returned.  After the second call,          *)
(* slugCall.title is the argument of that call (the first result) and      *)
(* resp records that the second call happened.                             *)
(***************************************************************************)
ReSlugInit ==
  /\ InitDb
  /\ slugCall \in [title : Titles, existingSlugs : {{}}, result : {<<>>}, done : {FALSE}]

ReSlugCall ==
  /\ slugCall.done
  /\ resp = NoResponse
  /\ slugCall' = [title |-> slugCall.result,
                  existingSlugs |-> {},
                  result |-> generateSlug(slugCall.result, {}),
                  done |-> TRUE]
  /\ resp' = Response("generateSlug", Anonymous, 0, 0, {})
  /\ UNCHANGED <<db, inflight>>

ReSlugNext ==
  \/ GenerateSlugCall
  \/ ReSlugCall

ReSlugSpec == ReSlugInit /\ [][ReSlugNext]_vars

(***************************************************************************)
(* C17: re-slugifying is idempotent on base slugs: for every title T,      *)
(* generateSlug(generateSlug(T, []), []) = generateSlug(T, []).            *)
(***************************************************************************)
C17_ReSlugIdempotent ==
  resp.op = "generateSlug" => slugCall.result = slugCall.title

\* the second call ran on a slug that begins with a hyphen and returned it
C17_Witness ==
  /\ resp.op = "generateSlug"
  /\ slugCall.title = <<"-", "a">>
  /\ slugCall.result = <<"-", "a">>

(***************************************************************************)
(* Spec: posts and who may read them.  The admin and a plain user write    *)
(* posts, their accounts get suspended or soft-deleted, and every kind of  *)
(* requester (the admin, the author, another user, nobody) reads them.     *)
(***************************************************************************)
Callers == UserIds \cup {Anonymous}
Authors == {"u1", "u2"}
ReadTitles == {<<"a">>}

DoCreatePost ==
  \E caller \in Authors, title \in ReadTitles,
     isPublished \in {"true", "false", "undefined"} :
    createPost(caller, [title |-> title, isPublished |-> isPublished, categoryId |-> 0])

DoSuspendUser == \E userId \in Authors : suspendUser(userId)

DoDeleteAccount == \E caller \in Authors : deleteAccount(caller, passwordOf[caller])

DoGetPostById ==
  \E caller \in Callers, postId \in PostIds : getPostByIdOrSlug(caller, IdIdentifier(postId))

DoGetPostBySlug ==
  \E caller \in Callers, slug \in slugsOfPosts(existingPostIds) :
    getPostByIdOrSlug(caller, SlugIdentifier(slug))

\* the query strings of the list routes
ListOptions ==
  [userId : {"u2", Undefined},
   username : {usernameOf["u2"], Undefined},
   publishedOnly : BOOLEAN,
   includeUnpublishedForOwner : {"u2", Undefined}]

DoGetPosts ==
  \E caller \in {"u3", Anonymous}, options \in ListOptions : getPosts(caller, options)

DoGetPostsByUser ==
  \E caller \in {"u3", Anonymous}, options \in ListOptions : getPostsByUser(caller, options)

Next ==
  \/ DoCreatePost
  \/ DoSuspendUser
  \/ DoDeleteAccount
  \/ DoGetPostById
  \/ DoGetPostBySlug
  \/ DoGetPosts
  \/ DoGetPostsByUser

Spec == Init /\ [][Next]_vars

(***************************************************************************)
(* C5: an unpublished post of an active owner is returned (200) by         *)
(* getPostByIdOrSlug to the owner, whatever the owner's role, and to any   *)
(* active admin.                                                           *)
(***************************************************************************)
C5_OwnerAndAdminReadUnpublished ==
  (/\ resp.op = "getPostByIdOrSlug"
   /\ resp.target \in existingPostIds
   /\ ~posts[resp.target].isPublished
   /\ authorActive(posts[resp.target])
   /\ \/ resp.caller = posts[resp.target].userId
      \/ (resp.caller \in UserIds /\ users[resp.caller].role = "admin"
          /\ activeUserExists(resp.caller)))
  => (resp.statusCode = 200 /\ resp.data = {resp.target})

(***************************************************************************)
(* C6: getPostByIdOrSlug never returns an unpublished post (200, the post  *)
(* as data) to a requester who is neither its owner nor an admin, the      *)
(* anonymous requester included.                                           *)
(***************************************************************************)
C6_UnpublishedNotReturnedToOthers ==
  (/\ resp.op = "getPostByIdOrSlug"
   /\ resp.target \in existingPostIds
   /\ ~posts[resp.target].isPublished
   /\ resp.caller # posts[resp.target].userId
   /\ ~(resp.caller \in UserIds /\ users[resp.caller].role = "admin"))
  => (resp.statusCode # 200 /\ resp.data = {})

\* the anonymous requester was refused an unpublished post of an active author
C6_Witness ==
  /\ resp.op = "getPostByIdOrSlug"
  /\ resp.target \in existingPostIds
  /\ ~posts[resp.target].isPublished
  /\ authorActive(posts[resp.target])
  /\ resp.caller = Anonymous
  /\ resp.statusCode = 403

(***************************************************************************)
(* C7: getPosts and getPostsByUser, whatever the query parameters, return  *)
(* no unpublished post unless the requester is its owner or an admin.      *)
(***************************************************************************)
C7_ListsHideUnpublished ==
  resp.op \in {"getPosts", "getPostsByUser"} =>
    \A p \in resp.data :
      \/ posts[p].isPublished
      \/ resp.caller = posts[p].userId
      \/ (resp.caller \in UserIds /\ users[resp.caller].role = "admin")

(***************************************************************************)
(* C19: getPostByIdOrSlug answers not-found (404) when the post's author   *)
(* is not active or is soft-deleted, and forbidden (403) when the author   *)
(* is active, the post is unpublished and the requester is an              *)
(* authenticated user who is neither the owner nor an admin; never an      *)
(* internal error (500) in these two cases.                                *)
(***************************************************************************)
C19_NotFoundOrForbidden ==
  (resp.op = "getPostByIdOrSlug" /\ resp.target \in existingPostIds) =>
    /\ ~authorActive(posts[resp.target]) => resp.statusCode = 404
    /\ (/\ authorActive(posts[resp.target])
        /\ ~posts[resp.target].isPublished
        /\ resp.caller \in UserIds
        /\ users[resp.caller] # NoRow
        /\ resp.caller # posts[resp.target].userId
        /\ users[resp.caller].role # "admin") => resp.statusCode = 403

(***************************************************************************)
(* C20: a published post whose author is active and not soft-deleted is    *)
(* returned (200) by getPostByIdOrSlug to every requester: anonymous, the  *)
(* owner, any other authenticated non-admin user, and any admin.           *)
(***************************************************************************)
C20_PublishedReadByAll ==
  (/\ resp.op = "getPostByIdOrSlug"
   /\ resp.target \in existingPostIds
   /\ posts[resp.target].isPublished
   /\ authorActive(posts[resp.target]))
  => (resp.statusCode = 200 /\ resp.data = {resp.target})

(***************************************************************************)
(* C27: in every state reachable through createPost and updatePost a post  *)
(* has isPublished = true if and only if its publishedAt is non-null.      *)
(***************************************************************************)
C27_PublishedIffPublishedAt ==
  \A p \in existingPostIds : posts[p].isPublished <=> posts[p].publishedAt # Null

(***************************************************************************)
(* ContentSpec: posts with comments and likes on them, authors that get    *)
(* suspended or soft-deleted, and the reads about a post.                  *)
(***************************************************************************)
ContentCreatePost ==
  \E caller \in Authors, isPublished \in {"true", "false"} :
    createPost(caller, [title |-> <<"a">>, isPublished |-> isPublished, categoryId |-> 0])

ContentAddComment == \E postId \in PostIds : addComment("u3", postId, "c1")

ContentLikePost == \E postId \in PostIds : likePost("u3", postId)

ContentSuspendUser == \E userId \in Authors : suspendUser(userId)

ContentDeleteAccount == \E caller \in Authors : deleteAccount(caller, passwordOf[caller])

ContentGetPost ==
  \E caller \in Callers, postId \in PostIds : getPostByIdOrSlug(caller, IdIdentifier(postId))

ContentGetComments ==
  \E caller \in {"u2", Anonymous}, postId \in PostIds : getCommentsByPostId(caller, postId)

ContentGetLikes ==
  \E caller \in {"u2", Anonymous}, postId \in PostIds : getLikesByPostId(caller, postId)

ContentGetLikeCount ==
  \E caller \in {"u2", Anonymous}, postId \in PostIds : getLikeCount(caller, postId)

ContentNext ==
  \/ ContentCreatePost
  \/ ContentAddComment
  \/ ContentLikePost
  \/ ContentSuspendUser
  \/ ContentDeleteAccount
  \/ ContentGetPost
  \/ ContentGetComments
  \/ ContentGetLikes
  \/ ContentGetLikeCount

ContentSpec == Init /\ [][ContentNext]_vars

(***************************************************************************)
(* C4: when a post's author is suspended or deleted (or has deletedAt      *)
(* set), getPostByIdOrSlug, getCommentsByPostId, getLikesByPostId and      *)
(* getLikeCount all answer 404 with no data, to every viewer.              *)
(***************************************************************************)
C4_InactiveAuthorContentNotFound ==
  (/\ resp.op \in {"getPostByIdOrSlug", "getCommentsByPostId",
                   "getLikesByPostId", "getLikeCount"}
   /\ resp.target \in existingPostIds
   /\ ~authorActive(posts[resp.target]))
  => (resp.statusCode = 404 /\ resp.data = {})

(***************************************************************************)
(* Post requests whose read and write interleave: createPost and           *)
(* updatePost in their split form, and deletePost, by the two plain users. *)
(***************************************************************************)
PostTitles == {<<"a">>, <<"a", "-", "1">>}
PostAuthors == {"u2", "u3"}

RaceCreateBegin ==
  \E caller \in PostAuthors, title \in PostTitles :
    createPostBegin(caller, [title |-> title, isPublished |-> "true", categoryId |-> 0])

RaceCreateCommit == \E req \in inflight : createPostCommit(req)

RaceUpdateBegin ==
  \E caller \in PostAuthors, postId \in PostIds, title \in PostTitles :
    updatePostBegin(caller, postId,
                    [title |-> title, isPublished |-> "undefined", categoryId |-> 0])

RaceUpdateCommit == \E req \in inflight : updatePostCommit(req)

RaceDelete == \E caller \in PostAuthors, postId \in PostIds : deletePost(caller, postId)

RaceNext ==
  \/ RaceCreateBegin
  \/ RaceCreateCommit
  \/ RaceUpdateBegin
  \/ RaceUpdateCommit
  \/ RaceDelete

RaceSpec == Init /\ [][RaceNext]_vars

(***************************************************************************)
(* C2: in every reachable state no two post rows hold the same slug,       *)
(* whatever the interleaving of createPost, updatePost (title change) and  *)
(* deletePost, two requests that read the slug list before either writes   *)
(* included.                                                               *)
(***************************************************************************)
C2_PostSlugsUnique ==
  \A p, q \in existingPostIds : p # q => posts[p].slug # posts[q].slug

\* a write that computed its slug from a stale slug list and met the row
\* another request stored in the meantime
C2_Witness ==
  /\ resp.op \in {"createPost", "updatePost"}
  /\ resp.statusCode = 500
  /\ Cardinality(existingPostIds) >= 1


(***************************************************************************)
(* AccountSpec: the account u2 (role user) and the admin u1 write content, *)
(* change their own row and details, and are suspended or soft-deleted     *)
(* while their tokens stay valid.                                          *)
(***************************************************************************)
Actors == {"u1", "u2"}

UserBodies(caller) ==
  {[email |-> "", username |-> "ann2", currentPassword |-> passwordOf[caller],
    newPassword |-> ""],
   [email |-> "", username |-> "ann2", currentPassword |-> "", newPassword |-> ""]}

AccountCreatePost ==
  \E caller \in Actors :
    createPost(caller, [title |-> <<"a">>, isPublished |-> "true", categoryId |-> 0])

AccountUpdatePost ==
  \E postId \in PostIds :
    updatePost("u2", postId, [title |-> <<>>, isPublished |-> "false", categoryId |-> 0])

AccountDeletePost == \E postId \in PostIds : deletePost("u2", postId)

AccountAddComment == \E caller \in Actors, postId \in PostIds : addComment(caller, postId, "c1")

AccountUpdateComment ==
  \E caller \in Actors, commentId \in CommentIds : updateComment(caller, commentId, "c2")

AccountDeleteComment ==
  \E caller \in Actors, commentId \in CommentIds : deleteComment(caller, commentId)

AccountLikePost == \E postId \in PostIds : likePost("u2", postId)

AccountUnlikePost == \E postId \in PostIds : unlikePost("u2", postId)

AccountUpdateUser == \E body \in UserBodies("u2") : updateUser("u2", body)

AccountUpdateDetails == updateDetails("u2", "bio1")

AccountSuspendUser == \E userId \in Actors : suspendUser(userId)

AccountDeleteAccount == deleteAccount("u2", passwordOf["u2"])

AccountNext ==
  \/ AccountCreatePost
  \/ AccountUpdatePost
  \/ AccountDeletePost
  \/ AccountAddComment
  \/ AccountUpdateComment
  \/ AccountDeleteComment
  \/ AccountLikePost
  \/ AccountUnlikePost
  \/ AccountUpdateUser
  \/ AccountUpdateDetails
  \/ AccountSuspendUser
  \/ AccountDeleteAccount

AccountSpec == Init /\ [][AccountNext]_vars

WriteOps ==
  {"createPost", "updatePost", "deletePost", "addComment", "updateComment",
   "deleteComment", "likePost", "unlikePost", "updateUser", "updateDetails",
   "createCategory", "updateCategory", "safeDeleteCategory"}

(***************************************************************************)
(* C3: a request that creates, changes or removes a post, comment, like,   *)
(* category or user field, made by an actor whose account is not active    *)
(* (suspended, deleted, or deletedAt set) when the request arrives, is     *)
(* rejected and leaves the store as it was.                                *)
(***************************************************************************)
C3_InactiveActorCannotWrite ==
  [][(/\ resp'.op \in WriteOps
      /\ resp'.caller \in UserIds
      /\ ~activeUserExists(resp'.caller))
     => (resp'.statusCode \notin {200, 201} /\ UNCHANGED db)]_vars

(***************************************************************************)
(* C23: the account-active rule comes before the content-visibility rule:  *)
(* in addComment and likePost an actor who is not active or is             *)
(* soft-deleted is answered 403 whatever the state of the post, and 404    *)
(* (post unpublished, missing or of an inactive author) goes to an active  *)
(* actor only.                                                             *)
(***************************************************************************)
C23_AccountRuleBeforeVisibility ==
  (/\ resp.op \in {"addComment", "likePost"}
   /\ resp.caller \in UserIds
   /\ users[resp.caller] # NoRow)
  => LET actorActive == /\ users[resp.caller].status = "active"
                        /\ users[resp.caller].deletedAt = Null
     IN /\ ~actorActive => resp.statusCode = 403
        /\ resp.statusCode = 404 => (actorActive /\ ~postAvailable(resp.target))

\* a suspended or soft-deleted actor was answered 403 for a post that is
\* missing or unpublished
C23_Witness ==
  /\ resp.op \in {"addComment", "likePost"}
  /\ resp.caller \in UserIds
  /\ users[resp.caller] # NoRow
  /\ users[resp.caller].status # "active"
  /\ ~postAvailable(resp.target)
  /\ resp.statusCode = 403

(***************************************************************************)
(* C26: every operation that answers with an error status (4xx or 5xx)     *)
(* leaves the users, posts, comments, likes and categories tables as they  *)
(* were before the request; updateUser never persists a change and then    *)
(* reports a failure.                                                      *)
(***************************************************************************)
C26_ErrorLeavesTablesUnchanged ==
  [][resp'.statusCode >= 400
     => UNCHANGED <<users, posts, comments, likes, categories>>]_vars

(***************************************************************************)
(* WriteSpec: posts with comments and likes, and every caller trying to    *)
(* change or remove posts and comments.                                    *)
(***************************************************************************)
WriteCreatePost ==
  \E caller \in Authors :
    createPost(caller, [title |-> <<"a">>, isPublished |-> "true", categoryId |-> 0])

WriteAddComment == \E caller \in {"u2", "u3"}, postId \in PostIds : addComment(caller, postId, "c1")

WriteLikePost == \E postId \in PostIds : likePost("u3", postId)

WriteUpdatePost ==
  \E caller \in Callers, postId \in PostIds :
    updatePost(caller, postId, [title |-> <<>>, isPublished |-> "false", categoryId |-> 0])

WriteDeletePost == \E caller \in Callers, postId \in PostIds : deletePost(caller, postId)

WriteDeleteComment ==
  \E caller \in Callers, commentId \in CommentIds : deleteComment(caller, commentId)

WriteSuspendUser == suspendUser("u2")

WriteNext ==
  \/ WriteCreatePost
  \/ WriteAddComment
  \/ WriteLikePost
  \/ WriteUpdatePost
  \/ WriteDeletePost
  \/ WriteDeleteComment
  \/ WriteSuspendUser

WriteSpec == Init /\ [][WriteNext]_vars

(***************************************************************************)
(* C8: a post row changes or disappears only in an updatePost or           *)
(* deletePost request whose caller is the post's userId; for every other   *)
(* authenticated caller, admins included, the request is answered 403 and  *)
(* the post, its comments and its likes stay as they were.                 *)
(***************************************************************************)
C8_OnlyOwnerMutatesPost ==
  [][\A p \in PostIds :
       posts[p] # NoRow =>
         /\ posts'[p] # posts[p] =>
              (/\ resp'.op \in {"updatePost", "deletePost"}
               /\ resp'.target = p
               /\ resp'.caller = posts[p].userId)
         /\ (/\ resp'.op \in {"updatePost", "deletePost"}
             /\ resp'.target = p
             /\ resp'.caller \in UserIds
             /\ resp'.caller # posts[p].userId)
            => (/\ resp'.statusCode = 403
                /\ UNCHANGED <<posts, comments, likes>>)]_vars

\* an admin was refused the removal of another user's post that has a comment
\* and a like on it
C8_Witness ==
  /\ resp.op = "deletePost"
  /\ resp.statusCode = 403
  /\ resp.caller = "u1"
  /\ resp.target \in existingPostIds
  /\ posts[resp.target].userId = "u2"
  /\ \E c \in existingCommentIds : comments[c].postId = resp.target
  /\ \E l \in DOMAIN likes : l.postId = resp.target

(***************************************************************************)
(* C21: every active user who owns a post can update it and delete it      *)
(* through PATCH and DELETE /api/posts/:id, whatever the user's role: the  *)
(* request of the active owner is answered 200.                            *)
(***************************************************************************)
C21_OwnerOfAnyRoleMutatesPost ==
  [][\A p \in PostIds :
       (/\ posts[p] # NoRow
        /\ resp'.op \in {"updatePost", "deletePost"}
        /\ resp'.target = p
        /\ resp'.caller = posts[p].userId
        /\ activeUserExists(resp'.caller))
       => resp'.statusCode = 200]_vars

(***************************************************************************)
(* C9: deleteComment removes the comment (200) when the caller is the      *)
(* comment's author or an admin; for any other authenticated caller it     *)
(* fails with the forbidden outcome (403) and the comment stays.           *)
(***************************************************************************)
C9_DeleteCommentAuthorOrAdmin ==
  [][\A c \in CommentIds :
       (/\ resp'.op = "deleteComment"
        /\ resp'.target = c
        /\ comments[c] # NoRow
        /\ resp'.caller \in UserIds)
       => IF resp'.caller = comments[c].userId \/ users[resp'.caller].role = "admin"
          THEN resp'.statusCode = 200 /\ comments'[c] = NoRow
          ELSE resp'.statusCode = 403 /\ comments'[c] = comments[c]]_vars

(***************************************************************************)
(* CategorySpec: every caller tries to create, change and remove           *)
(* categories; the admin may be suspended; a post may refer to a category. *)
(***************************************************************************)
CategoryNames == {<<"a">>, <<"A">>}

CategoryCreate ==
  \E caller \in Callers, name \in CategoryNames : createCategory(caller, name, "d1")

CategoryUpdate ==
  \E caller \in Callers, categoryId \in CategoryIds,
     name \in CategoryNames \cup {<<>>}, description \in {"d2", Undefined} :
    updateCategory(caller, categoryId, [name |-> name, description |-> description])

CategoryDelete ==
  \E caller \in Callers, categoryId \in CategoryIds : safeDeleteCategory(caller, categoryId)

CategoryCreatePost ==
  \E categoryId \in CategoryIds \cup {0} :
    createPost("u2", [title |-> <<"a">>, isPublished |-> "true", categoryId |-> categoryId])

CategorySuspendUser == suspendUser("u1")

CategoryNext ==
  \/ CategoryCreate
  \/ CategoryUpdate
  \/ CategoryDelete
  \/ CategoryCreatePost
  \/ CategorySuspendUser

CategorySpec == Init /\ [][CategoryNext]_vars

CategoryWriteOps == {"createCategory", "updateCategory", "safeDeleteCategory"}

(***************************************************************************)
(* C10: the categories table changes only in a create, update or delete    *)
(* category request whose caller has role admin; such a request by any     *)
(* other caller is rejected (401 or 403) and changes no category.          *)
(***************************************************************************)
C10_CategoriesOnlyByAdmin ==
  [][/\ categories' # categories =>
          (/\ resp'.op \in CategoryWriteOps
           /\ resp'.caller \in UserIds
           /\ users[resp'.caller].role = "admin")
     /\ (/\ resp'.op \in CategoryWriteOps
         /\ ~(resp'.caller \in UserIds /\ users[resp'.caller].role = "admin"))
        => (resp'.statusCode \in {401, 403} /\ categories' = categories)]_vars

\* a caller with role user was refused while a category exists
C10_Witness ==
  /\ resp.op \in {"updateCategory", "safeDeleteCategory"}
  /\ resp.caller = "u2"
  /\ resp.statusCode = 403
  /\ resp.target \in existingCategoryIds


(***************************************************************************)
(* LikeSpec: a published post and two users whose like and unlike requests *)
(* interleave; a like request may be parked between its existingLike query *)
(* and its insert.                                                         *)
(***************************************************************************)
Likers == {"u2", "u3"}

LikeCreatePost ==
  createPost("u2", [title |-> <<"a">>, isPublished |-> "true", categoryId |-> 0])

LikeBegin == \E caller \in Likers, postId \in PostIds : likePostBegin(caller, postId)

LikeCommit == \E req \in inflight : likePostCommit(req)

LikeUnlike == \E caller \in Likers, postId \in PostIds : unlikePost(caller, postId)

LikeDeletePost == \E postId \in PostIds : deletePost("u2", postId)

LikeNext ==
  \/ LikeCreatePost
  \/ LikeBegin
  \/ LikeCommit
  \/ LikeUnlike
  \/ LikeDeletePost

LikeSpec == Init /\ [][LikeNext]_vars

(***************************************************************************)
(* C11: at most one like row exists per (user, post) pair in every         *)
(* reachable state, under any interleaving of likePost and unlikePost; a   *)
(* likePost answered for a pair that already has a like adds no row.       *)
(***************************************************************************)
C11_OneLikePerPair ==
  [][/\ \A l \in DOMAIN likes' : likes'[l] = 1
     /\ (/\ resp'.op = "likePost"
         /\ BagIn([userId |-> resp'.caller, postId |-> resp'.target], likes))
        => likes' = likes]_vars

\* the second of two racing likes of one pair reached its insert and was
\* refused; the pair has its row
C11_Witness ==
  /\ resp.op = "likePost"
  /\ resp.statusCode = 500
  /\ BagIn([userId |-> resp.caller, postId |-> resp.target], likes)


(***************************************************************************)
(* UserSpec: the users table from the seeded admin on.  Signups and        *)
(* changes of username and email interleave (each may be parked between    *)
(* its existence query and its write), and accounts are soft-deleted.      *)
(***************************************************************************)
\* the users table after the seed script alone
SeededUsers == [u \in UserIds |-> IF u = "u1" THEN InitialUsers[u] ELSE NoRow]

UserInit ==
  /\ users = SeededUsers
  /\ userDetails = [u \in UserIds |-> NoRow]
  /\ posts = [p \in PostIds |-> NoRow]
  /\ comments = [c \in CommentIds |-> NoRow]
  /\ likes = EmptyBag
  /\ categories = [c \in CategoryIds |-> NoRow]
  /\ nextPostId = 1
  /\ nextCommentId = 1
  /\ nextCategoryId = 1
  /\ inflight = {}
  /\ resp = NoResponse
  /\ slugCall = NoSlugCall

SignupPassword == "pw2"

SignupBodies ==
  [username : {"ann", "bob"}, email : {"ann@x", "bob@x"}, password : {SignupPassword}]

UpdateBodies ==
  [email : {"", "bob@x"}, username : {"", "bob"},
   currentPassword : {SignupPassword}, newPassword : {""}]

NewUsers == {"u2", "u3"}

UserSignupBegin == \E body \in SignupBodies : signupBegin(body)

UserSignupCommit == \E req \in inflight : signupCommit(req)

UserUpdateBegin == \E caller \in NewUsers, body \in UpdateBodies : updateUserBegin(caller, body)

UserUpdateCommit == \E req \in inflight : updateUserCommit(req)

UserDeleteAccount == \E caller \in NewUsers : deleteAccount(caller, SignupPassword)

UserNext ==
  \/ UserSignupBegin
  \/ UserSignupCommit
  \/ UserUpdateBegin
  \/ UserUpdateCommit
  \/ UserDeleteAccount

UserSpec == UserInit /\ [][UserNext]_vars

(***************************************************************************)
(* C12: no two user rows, soft-deleted rows included, share a username or  *)
(* share an email in any reachable state, under any interleaving of        *)
(* signup, updateUser and deleteAccount.                                   *)
(***************************************************************************)
C12_UsernameEmailUnique ==
  \A u, v \in UserIds :
    (u # v /\ users[u] # NoRow /\ users[v] # NoRow)
    => (users[u].username # users[v].username /\ users[u].email # users[v].email)

\* a signup lost to a row written after its existence query, while a
\* soft-deleted row is in the table
C12_Witness ==
  /\ resp.op = "signup"
  /\ resp.statusCode = 500
  /\ \E u \in UserIds : users[u] # NoRow /\ users[u].status = "deleted"


(***************************************************************************)
(* ConflictSpec: two requests race on a uniqueness constraint: two         *)
(* likePost requests of one user for one post, two signups with one        *)
(* username or email.  Each passes its existence query before either       *)
(* inserts.                                                                *)
(***************************************************************************)
ConflictCreatePost ==
  createPost("u1", [title |-> <<"a">>, isPublished |-> "true", categoryId |-> 0])

ConflictLikeBegin == \E postId \in PostIds : likePostBegin("u1", postId)

ConflictLikeCommit == \E req \in inflight : likePostCommit(req)

ConflictSignupBegin == \E body \in SignupBodies : signupBegin(body)

ConflictSignupCommit == \E req \in inflight : signupCommit(req)

ConflictNext ==
  \/ ConflictCreatePost
  \/ ConflictLikeBegin
  \/ ConflictLikeCommit
  \/ ConflictSignupBegin
  \/ ConflictSignupCommit

ConflictSpec == UserInit /\ [][ConflictNext]_vars

(***************************************************************************)
(* C13: when two requests race on a uniqueness constraint, exactly one     *)
(* insert takes effect, and the request whose insert is refused is         *)
(* answered with the conflict outcome (409), not with an internal error.   *)
(***************************************************************************)
C13_RaceLoserGetsConflict ==
  [][/\ \A l \in DOMAIN likes' : likes'[l] = 1
     /\ \A req \in inflight :
          (/\ req \notin inflight'
           /\ req.op \in {"likePost", "signup"}
           /\ likes' = likes
           /\ users' = users)
          => resp'.statusCode = 409]_vars

(***************************************************************************)
(* ProfileSpec: every account reads its own record through GET             *)
(* /api/users/me and GET /api/auth/me, changes its details, and is         *)
(* suspended or soft-deleted while its token stays valid.                  *)
(***************************************************************************)
ProfileGetProfile == \E caller \in Callers : getProfile(caller)

ProfileAuthMe == \E caller \in Callers : authMe(caller)

ProfileUpdateDetails == \E caller \in UserIds : updateDetails(caller, "bio1")

ProfileSuspendUser == \E userId \in UserIds : suspendUser(userId)

ProfileDeleteAccount ==
  \E caller \in Callers, password \in {"", "wrong", passwordOf["u2"], passwordOf["u3"]} :
    deleteAccount(caller, password)

ProfileNext ==
  \/ ProfileGetProfile
  \/ ProfileAuthMe
  \/ ProfileUpdateDetails
  \/ ProfileSuspendUser
  \/ ProfileDeleteAccount

ProfileSpec == Init /\ [][ProfileNext]_vars

(***************************************************************************)
(* C18: no read returns the record of a soft-deleted user: once            *)
(* deleteAccount has succeeded for U, getProfile, GET /api/auth/me and     *)
(* req.user never yield U's data, even for a token issued before.          *)
(***************************************************************************)
C18_DeletedUserNotRead ==
  resp.op \in {"getProfile", "authMe"} =>
    \A u \in resp.data : users[u].deletedAt = Null

(***************************************************************************)
(* UniqueSpec: requests that run into a uniqueness rule, each served       *)
(* without interleaving: signups and changes of username and email, likes  *)
(* of the seeded admin and of the new users, categories of the admin.      *)
(***************************************************************************)
UniqueSignup == \E body \in SignupBodies : signup(body)

UniqueUpdateUser == \E caller \in NewUsers, body \in UpdateBodies : updateUser(caller, body)

UniqueCreatePost ==
  createPost("u1", [title |-> <<"a">>, isPublished |-> "true", categoryId |-> 0])

UniqueLikePost == \E caller \in {"u1", "u2"}, postId \in PostIds : likePost(caller, postId)

UniqueCreateCategory == \E name \in CategoryNames : createCategory("u1", name, "d1")

UniqueUpdateCategory ==
  \E categoryId \in CategoryIds, name \in CategoryNames :
    updateCategory("u1", categoryId, [name |-> name, description |-> Undefined])

UniqueNext ==
  \/ UniqueSignup
  \/ UniqueUpdateUser
  \/ UniqueCreatePost
  \/ UniqueLikePost
  \/ UniqueCreateCategory
  \/ UniqueUpdateCategory

UniqueSpec == UserInit /\ [][UniqueNext]_vars

(***************************************************************************)
(* C22: every uniqueness violation an operation detects is answered with   *)
(* the conflict outcome (409) and leaves the stored state unchanged:       *)
(* signup with an existing username or email, updateUser to an email or    *)
(* username held by another user, likePost for a pair that already has a   *)
(* like, createCategory or updateCategory with a name another category     *)
(* already has.                                                            *)
(***************************************************************************)
C22_UniquenessViolationIsConflict ==
  [][/\ \A body \in SignupBodies :
          (/\ signup(body)
           /\ \E u \in UserIds :
                /\ users[u] # NoRow
                /\ users[u].email = body.email \/ users[u].username = body.username)
          => (resp'.statusCode = 409 /\ UNCHANGED db)
     /\ \A caller \in NewUsers, body \in UpdateBodies :
          (/\ updateUser(caller, body)
           /\ users[caller] # NoRow
           /\ \E u \in UserIds \ {caller} :
                /\ users[u] # NoRow
                /\ \/ body.email # "" /\ users[u].email = body.email
                   \/ body.username # "" /\ users[u].username = body.username)
          => (resp'.statusCode = 409 /\ UNCHANGED db)
     /\ \A caller \in UserIds, postId \in PostIds :
          (/\ likePost(caller, postId)
           /\ BagIn([userId |-> caller, postId |-> postId], likes))
          => (resp'.statusCode = 409 /\ UNCHANGED db)
     /\ \A name \in CategoryNames :
          (/\ createCategory("u1", name, "d1")
           /\ \E c \in existingCategoryIds : categories[c].name = name)
          => (resp'.statusCode = 409 /\ UNCHANGED db)
     /\ \A categoryId \in existingCategoryIds, name \in CategoryNames :
          (/\ updateCategory("u1", categoryId, [name |-> name, description |-> Undefined])
           /\ \E c \in existingCategoryIds \ {categoryId} : categories[c].name = name)
          => (resp'.statusCode = 409 /\ UNCHANGED db)]_vars

(***************************************************************************)
(* PunctuationSpec: titles and names made of punctuation alone, given to   *)
(* generateSlug, to createPost and to createCategory, next to a plain      *)
(* title.                                                                  *)
(***************************************************************************)
\* titles of one to MaxTitleLen characters, none of them a word character,
\* whitespace or a hyphen
PunctuationTitles ==
  {t \in Titles : Len(t) >= 1 /\ \A i \in 1..Len(t) : t[i] = "!"}

PunctuationInit ==
  /\ InitDb
  /\ slugCall \in [title : PunctuationTitles \cup {<<"a">>},
                   existingSlugs : SUBSET {<<>>, <<"-", "1">>, <<"a">>},
                   result : {<<>>}, done : {FALSE}]

PunctuationCreatePost ==
  \E caller \in Authors, title \in PunctuationTitles \cup {<<"a">>} :
    createPost(caller, [title |-> title, isPublished |-> "true", categoryId |-> 0])

PunctuationDeletePost == \E postId \in PostIds : deletePost("u2", postId)

PunctuationCreateCategory ==
  \E name \in PunctuationTitles : createCategory("u1", name, "d1")

PunctuationNext ==
  \/ GenerateSlugCall
  \/ PunctuationCreatePost
  \/ PunctuationDeletePost
  \/ PunctuationCreateCategory

PunctuationSpec == PunctuationInit /\ [][PunctuationNext]_vars

(***************************************************************************)
(* C24: a title with no word character, whitespace or hyphen has the empty *)
(* string as base: generateSlug returns '' when '' is not in the existing  *)
(* set and '-1' when the existing set is {''}; createPost and              *)
(* createCategory store the slug so computed, the empty one included.      *)
(***************************************************************************)
C24_PunctuationTitleEmptySlug ==
  [][/\ (slugCall'.done /\ slugCall'.title \in PunctuationTitles) =>
          /\ <<>> \notin slugCall'.existingSlugs => slugCall'.result = <<>>
          /\ slugCall'.existingSlugs = {<<>>} => slugCall'.result = <<"-", "1">>
     /\ \A caller \in Authors, title \in PunctuationTitles :
          (/\ createPost(caller, [title |-> title, isPublished |-> "true", categoryId |-> 0])
           /\ activeUserExists(caller))
          => /\ resp'.statusCode = 201
             /\ <<>> \notin slugsOfPosts(existingPostIds) => posts'[resp'.target].slug = <<>>
             /\ slugsOfPosts(existingPostIds) = {<<>>} =>
                  posts'[resp'.target].slug = <<"-", "1">>
     /\ \A name \in PunctuationTitles :
          (/\ createCategory("u1", name, "d1")
           /\ existingCategoryIds = {})
          => /\ resp'.statusCode = 201
             /\ categories'[resp'.target].slug = <<>>]_vars

\* a post and a category are stored with the empty slug, and a second
\* punctuation title got the slug '-1'
C24_Witness ==
  /\ \E p, q \in existingPostIds : posts[p].slug = <<>> /\ posts[q].slug = <<"-", "1">>
  /\ \E c \in existingCategoryIds : categories[c].slug = <<>>
  /\ slugCall.done
  /\ slugCall.title = <<"!", "!", "!">>
  /\ slugCall.existingSlugs = {<<>>}
  /\ slugCall.result = <<"-", "1">>

(***************************************************************************)
(* PasswordSpec: the users u2 and u3 change email, username and password   *)
(* through PATCH /api/users/me with no, a wrong or the right current       *)
(* password; u3 may be soft-deleted while its token stays valid.           *)
(***************************************************************************)
NewPassword == "pw9"

PasswordBodies ==
  [email : {"", "new@x"}, username : {"", "ann2"},
   currentPassword : {"", "wrong", passwordOf["u2"], passwordOf["u3"], NewPassword},
   newPassword : {"", NewPassword}]

PasswordUpdateUser ==
  \E caller \in {"u2", "u3"}, body \in PasswordBodies : updateUser(caller, body)

PasswordDeleteAccount ==
  \E password \in {passwordOf["u3"], NewPassword} : deleteAccount("u3", password)

PasswordNext ==
  \/ PasswordUpdateUser
  \/ PasswordDeleteAccount

PasswordSpec == Init /\ [][PasswordNext]_vars

(***************************************************************************)
(* C25: updateUser changes a user's email, username or password only when  *)
(* currentPassword is supplied and matches the stored hash; when it is     *)
(* missing (400) or wrong (401) the user row is unchanged.                 *)
(***************************************************************************)
C25_SensitiveChangeNeedsPassword ==
  [][\A caller \in {"u2", "u3"}, body \in PasswordBodies :
       updateUser(caller, body) =>
         LET sensitive == body.email # "" \/ body.username # "" \/ body.newPassword # ""
             matches == users[caller].hashedPassword = bcryptHash(body.currentPassword)
         IN /\ (\/ users'[caller].email # users[caller].email
                \/ users'[caller].username # users[caller].username
                \/ users'[caller].hashedPassword # users[caller].hashedPassword)
               => (body.currentPassword # "" /\ matches)
            /\ (sensitive /\ body.currentPassword = "")
               => (resp'.statusCode = 400 /\ users' = users)
            /\ (sensitive /\ body.currentPassword # "" /\ ~matches)
               => (resp'.statusCode = 401 /\ users' = users)]_vars

\* a request with a wrong current password was answered 401 after the
\* password had been changed once
C25_Witness ==
  /\ resp.op = "updateUser"
  /\ resp.statusCode = 401
  /\ users[resp.caller].hashedPassword = bcryptHash(NewPassword)

(***************************************************************************)
(* IntegritySpec: comments and likes on the posts of u2, each parked        *)
(* between its post query and its insert, while u2 deletes posts and the    *)
(* commenting and liking user u3 soft-deletes the account.                  *)
(***************************************************************************)
IntegrityCreatePost ==
  createPost("u2", [title |-> <<"a">>, isPublished |-> "true", categoryId |-> 0])

IntegrityCommentBegin == \E postId \in PostIds : addCommentBegin("u3", postId, "c1")

IntegrityCommentCommit == \E req \in inflight : addCommentCommit(req)

IntegrityLikeBegin == \E caller \in Likers, postId \in PostIds : likePostBegin(caller, postId)

IntegrityLikeCommit == \E req \in inflight : likePostCommit(req)

IntegrityDeletePost == \E postId \in PostIds : deletePost("u2", postId)

IntegrityDeleteAccount == deleteAccount("u3", passwordOf["u3"])

IntegrityNext ==
  \/ IntegrityCreatePost
  \/ IntegrityCommentBegin
  \/ IntegrityCommentCommit
  \/ IntegrityLikeBegin
  \/ IntegrityLikeCommit
  \/ IntegrityDeletePost
  \/ IntegrityDeleteAccount

IntegritySpec == Init /\ [][IntegrityNext]_vars

(***************************************************************************)
(* C28: referential integrity: every comment and every like refers to a    *)
(* post row and a user row that exist; deletePost removes the post         *)
(* together with all of its comments and likes; no operation removes a     *)
(* user row (deleteAccount only marks it).                                 *)
(***************************************************************************)
C28_ReferentialIntegrity ==
  [][/\ \A c \in CommentIds :
          comments'[c] # NoRow =>
            (posts'[comments'[c].postId] # NoRow /\ users'[comments'[c].userId] # NoRow)
     /\ \A l \in DOMAIN likes' :
          posts'[l.postId] # NoRow /\ users'[l.userId] # NoRow
     /\ (resp'.op = "deletePost" /\ resp'.statusCode = 200) =>
          /\ posts'[resp'.target] = NoRow
          /\ \A c \in CommentIds :
               comments'[c] # NoRow => comments'[c].postId # resp'.target
          /\ \A l \in DOMAIN likes' : l.postId # resp'.target
     /\ \A u \in UserIds : users[u] # NoRow => users'[u] # NoRow
     /\ resp'.op = "deleteAccount" /\ resp'.statusCode = 200 =>
          users'[resp'.caller].status = "deleted"]_vars

\* a post was deleted with its comment while a like of it was parked, and
\* the parked like was then refused
C28_Witness ==
  /\ resp.op = "likePost"
  /\ resp.statusCode = 500
  /\ posts[resp.target] = NoRow
  /\ nextCommentId > 1
  /\ existingCommentIds = {}

(***************************************************************************)
(* PrivilegeSpec: the users table from the seeded admin on, under every    *)
(* request that touches an account (signup, login, updateUser,             *)
(* updateDetails, deleteAccount) and content requests of the admin and of  *)
(* the new users.                                                          *)
(***************************************************************************)
LoginBodies ==
  [identifier : {"", "root@x", "ann"}, password : {"pw1", SignupPassword}]

PrivilegeSignup == \E body \in SignupBodies : signup(body)

PrivilegeLogin == \E body \in LoginBodies : authLogin(body)

PrivilegeUpdateUser == \E caller \in UserIds, body \in UpdateBodies : updateUser(caller, body)

PrivilegeUpdateDetails == updateDetails("u2", "bio1")

PrivilegeDeleteAccount ==
  \E caller \in UserIds : deleteAccount(caller, SignupPassword)

PrivilegeCreatePost ==
  \E caller \in {"u1", "u2"} :
    createPost(caller, [title |-> <<"a">>, isPublished |-> "true", categoryId |-> 0])

PrivilegeLikePost == likePost("u2", 1)

PrivilegeCreateCategory == \E caller \in {"u1", "u2"} : createCategory(caller, <<"a">>, "d1")

PrivilegeNext ==
  \/ PrivilegeSignup
  \/ PrivilegeLogin
  \/ PrivilegeUpdateUser
  \/ PrivilegeUpdateDetails
  \/ PrivilegeDeleteAccount
  \/ PrivilegeCreatePost
  \/ PrivilegeLikePost
  \/ PrivilegeCreateCategory

PrivilegeSpec == UserInit /\ [][PrivilegeNext]_vars

(***************************************************************************)
(* C29: no API operation grants privileges: signup creates a user with     *)
(* role 'user' and status 'active', no operation changes any user's role,  *)
(* and the set of admin users is the same before and after every request.  *)
(***************************************************************************)
C29_NoPrivilegeGranted ==
  [][/\ \A u \in UserIds :
          /\ users[u] # NoRow => (users'[u] # NoRow /\ users'[u].role = users[u].role)
          /\ (users[u] = NoRow /\ users'[u] # NoRow) =>
               (/\ resp'.op = "signup"
                /\ users'[u].role = "user"
                /\ users'[u].status = "active")
     /\ {u \in UserIds : users'[u] # NoRow /\ users'[u].role = "admin"}
          = {u \in UserIds : users[u] # NoRow /\ users[u].role = "admin"}]_vars

\* two users signed up and one of them was refused the creation of a
\* category
C29_Witness ==
  /\ resp.op = "createCategory"
  /\ resp.caller \in NewUsers
  /\ resp.statusCode = 403
  /\ \A u \in UserIds : users[u] # NoRow

(***************************************************************************)
(* SlugReadSpec: posts whose slug is short, or as long as a uuid, read by  *)
(* slug and by id by the anonymous requester; the author may unpublish a   *)
(* post or be suspended.                                                   *)
(***************************************************************************)
\* a title of UuidLen letters, and one written like a uuid (8-4-4-4-12)
LongTitle == [i \in 1..UuidLen |-> "a"]
UuidLikeTitle == [i \in 1..UuidLen |-> IF i \in {9, 14, 19, 24} THEN "-" ELSE "a"]

SlugReadTitles == {<<"a">>, LongTitle, UuidLikeTitle}

SlugReadCreatePost ==
  \E title \in SlugReadTitles, isPublished \in {"true", "false"} :
    createPost("u2", [title |-> title, isPublished |-> isPublished, categoryId |-> 0])

SlugReadUpdatePost ==
  \E postId \in PostIds, isPublished \in {"true", "false"} :
    updatePost("u2", postId, [title |-> <<>>, isPublished |-> isPublished, categoryId |-> 0])

SlugReadSuspendUser == suspendUser("u2")

SlugReadGetBySlug ==
  \E slug \in slugsOfPosts(existingPostIds) :
    getPostByIdOrSlug(Anonymous, SlugIdentifier(slug))

SlugReadGetById ==
  \E postId \in PostIds : getPostByIdOrSlug(Anonymous, IdIdentifier(postId))

SlugReadNext ==
  \/ SlugReadCreatePost
  \/ SlugReadUpdatePost
  \/ SlugReadSuspendUser
  \/ SlugReadGetBySlug
  \/ SlugReadGetById

SlugReadSpec == Init /\ [][SlugReadNext]_vars

(***************************************************************************)
(* C30: every published post of an active author is retrievable by its     *)
(* slug: for the anonymous requester getPostByIdOrSlug(post.slug) returns  *)
(* that post whatever the slug's length, a slug of exactly 36 characters   *)
(* included, and getPostByIdOrSlug(post.id) returns the same post.         *)
(***************************************************************************)
C30_PublishedPostReadBySlug ==
  [][\A p \in existingPostIds :
       (posts[p].isPublished /\ authorActive(posts[p])) =>
         /\ getPostByIdOrSlug(Anonymous, SlugIdentifier(posts[p].slug))
            => (resp'.statusCode = 200 /\ resp'.data = {p})
         /\ getPostByIdOrSlug(Anonymous, IdIdentifier(p))
            => (resp'.statusCode = 200 /\ resp'.data = {p})]_vars

=============================================================================
